---- MODULE Spec2Model ----
(***************************************************************************)
(* Entity store (ECS), system registry, tick runner and the two physics   *)
(* workers (game/physics.rs, physics.rs) of asteroids-rs.                  *)
(*                                                                         *)
(* The store is `entities: RwLock<Vec<Option<Entity>>>`, the registry is   *)
(* `systems: Mutex<BTreeMap<String, Box<dyn System>>>` and notifications   *)
(* go through an mpsc channel (`event_sender`).  Client threads use the    *)
(* store API (create / destroy / visit / visit_mut, or the lock objects    *)
(* returned by read() / write()); one worker thread runs worker_func in a  *)
(* loop.                                                                   *)
(*                                                                         *)
(* Further parts: collision_test of game/physics.rs on integer geometry,   *)
(* the worker threads and their cancellation (worker.rs, workers.rs), the  *)
(* message dispatcher (dispatch.rs) and the handles of the game loop       *)
(* (game/loop.rs).                                                         *)
(*                                                                         *)
(* Entity ids are 0-based as in the source: id i is entities[i + 1].       *)
(* An Option<T> is a sequence of length at most one: <<>> is None, <<v>>   *)
(* is Some(v).                                                             *)
(***************************************************************************)
EXTENDS Integers, Sequences, FiniteSets, TLC

\* ------------------------------------------------------------------ bounds

\* Largest length the store may grow to.
MaxLen == 2

\* Most notifications held by the channel before the dispatcher drains it.
MaxEvents == 1

\* Most deferred actions one tick collects.
MaxActions == 2

\* How many ticks a worker thread runs at most, and the writes of one tick.
MaxTicks == 2
TickSteps == 2

\* How many messages the senders send at most.
MaxSent == 3

\* How many add_logic calls there are at most.
MaxCalls == 4

\* ------------------------------------------------------------- vocabulary

\* Threads calling the store API, and the ECS worker thread.
Clients == {"c1", "c2"}
Worker == "ecs"
NoOwner == "none"

\* System names (String keys of the BTreeMap), coded by their sort order.
Names == {1, 2}

\* Identities of the boxed systems handed to add_system.
SysIds == {"s1"}
\* A system handed to add_system after the registry has been set up.
NewerSystem == "s2"

\* The component data of an entity, reduced to one small number.
Vals == {0, 1}

None == <<>>
Some(v) == <<v>>
IsSome(o) == o # <<>>
Unwrap(o) == o[1]

\* Closures handed to modify / visit_mut: one overwrites the component with a
\* captured value, one updates it from its current value.
Closures == {<<"set", 0>>, <<"add", 1>>}

\* enum Entity { Camera, Spacecraft, Asteroid, Bullet }, each with its
\* components: transform.position (a point on a line), camera.follow (of a
\* Camera; false elsewhere) and collider.collisions.
Variants == {"Camera", "Spacecraft", "Asteroid", "Bullet"}
Positions == {0, 3}

\* Entity::collider / collider_mut: Some for every variant but Camera.
HasCollider(entity) == entity.variant \in {"Spacecraft", "Asteroid", "Bullet"}

\* Camera::default / Spacecraft::default / ...: follow starts true, collisions
\* empty.
NewEntity(variant, position) ==
    [variant |-> variant, position |-> position, follow |-> variant = "Camera",
     collisions |-> {}]

\* A plausible slip: an entity that is not a camera is replaced by one.
FollowToggleAnyEntity(entity) ==
    IF entity.variant = "Camera" THEN [entity EXCEPT !.follow = ~@]
    ELSE NewEntity("Camera", entity.position)

\* if let Some(camera) = entity.camera_mut() { camera.follow = !camera.follow }
FollowToggle(entity) ==
    IF entity.variant = "Camera" THEN [entity EXCEPT !.follow = ~@] ELSE entity

\* entity.collider_mut().map(|collider| collider.collisions.extend(collisions))
ExtendCollisions(entity, found) ==
    IF HasCollider(entity) THEN [entity EXCEPT !.collisions = @ \cup found] ELSE entity

\* The closures of the game: what the systems, the controller and the physics
\* worker hand to modify.
SystemClosures == {<<"position", p>> : p \in Positions}
ControllerClosures == {<<"follow_toggle", 0>>}

Call(func, entity) ==
    CASE func[1] = "set" -> func[2]
      [] func[1] = "add" -> (entity + func[2]) % Cardinality(Vals)
      [] func[1] = "position" -> [entity EXCEPT !.position = func[2]]
      [] func[1] = "follow_toggle" -> FollowToggle(entity)
      [] func[1] = "collisions" -> ExtendCollisions(entity, func[2])

\* enum Action { Modify(EntityId, Box<dyn FnOnce(&mut Entity)>), Destroy(EntityId) }
Modify(entity_id, func) == [kind |-> "Modify", entity_id |-> entity_id, func |-> func]
Destroy(entity_id) == [kind |-> "Destroy", entity_id |-> entity_id, func |-> <<"none", 0>>]

\* enum Event { EntityCreated(EntityId), EntityDestroyed(EntityId) }
EntityCreated(entity_id) == <<"EntityCreated", entity_id>>
EntityDestroyed(entity_id) == <<"EntityDestroyed", entity_id>>

VARIABLES
    entities,   \* ECS.entities: Vec<Option<Entity>>
    systems,    \* ECS.systems: BTreeMap<String, Box<dyn System>>
    events,     \* messages in flight on the event channel
    rwWriter,   \* holder of the write half of the entities RwLock
    rwReaders,  \* holders of the read half of the entities RwLock
    sysMutex,   \* holder of the systems Mutex
    pc,         \* position of every client thread
    local,      \* locals of the call a client thread is in
    ret,        \* value returned by a client's last call
    tpc,        \* position of the worker thread in worker_func
    scan,       \* worker_func: position of the two nested loops
    actions,    \* worker_func: the deferred actions not yet applied
    done,       \* history: the deferred actions applied so far, in order
    enqueued,   \* history: the deferred actions of this tick as the systems pushed them
    snapshot,   \* history: the store when the tick took the write lock
    invoked,    \* history: the invocations of this tick, with what they read
    ppc,        \* position of the physics worker thread in its worker_func
    collected,  \* physics worker_func: the map returned by collect_collisions
    colliders,  \* Physics.colliders: BTreeMap<EntityId, ColliderGroup>
    collisions, \* Physics.collisions: the pairs found by the previous resolve
    testLeft,   \* collision_test: the receiving collider, None outside a test
    testRight,  \* collision_test: the collider passed to it
    verdict,    \* collision_test: what the call returned, None before it
    absent,     \* history: the ids the last store_collisions found no entity for
    alive,      \* worker.rs Worker.alive of every worker: AtomicBool
    token,      \* workers.rs CancellationToken.token of every worker: AtomicBool
    wpc,        \* position of every spawned worker thread in its loop
    step,       \* how far every worker thread is in its current tick
    effects,    \* what every worker function has written so far
    dpc,        \* position of the thread that owns a worker or its handle
    seen,       \* what the owner reads of a worker's writes after the drop
    handlers,   \* Dispatcher.handlers: Vec<Handler<T>>, in registration order
    drained,    \* Dispatcher::dispatch: the messages collected from the receiver
    delivered,  \* history: the handler calls so far, as <<handler, message>>
    sends,      \* history: how many messages the senders have sent
    xpc,        \* position of the dispatching thread in Dispatcher::dispatch
    logics,     \* Loop.logics: BTreeMap<String, Box<dyn GameLogic>>
    handles,    \* the handles add_logic returned that have not been dropped
    added,      \* history: how many add_logic calls there have been
    scheme_counter, \* Input.scheme_counter: AtomicUsize
    schemes,    \* Input.schemes: BTreeMap<usize, Scheme>
    mapping,    \* Input.mapping: BTreeMap<Key, BTreeMap<String, usize>>
    schemeHandles, \* the handles add_scheme returned that have not been dropped
    players,    \* players.rs Store.players: BTreeMap<PlayerId, Player>
    player_counter, \* players.rs Store.player_counter: AtomicUsize
    playersWriter, \* holder of the write half of the players RwLock
    gpc,        \* position of the game loop thread in its logics
    piter,      \* players_respawn_game_logic: the PlayerIterMut it holds
    epc,        \* position of the events thread in worker_func of events.rs
    inbox,      \* events.rs worker_func: the messages collected from the receiver
    resetting,  \* handle_entity_destroy: the player_id the read pass found
    notified,   \* history: the collisions whose last notification is CollisionStarted
    replaced,   \* history: the ids a create has filled since the last collect_collisions
    mutated,    \* history: the store mutations, in the order they took effect
    notes       \* history: the notifications, in the order they were enqueued

vars == <<entities, systems, events, rwWriter, rwReaders, sysMutex, pc, local,
          ret, tpc, scan, actions, done, enqueued, snapshot, invoked,
          ppc, collected, colliders, collisions, testLeft, testRight, verdict,
          absent, alive, token, wpc, step, effects, dpc, seen,
          handlers, drained, delivered, sends, xpc, logics, handles, added,
          scheme_counter, schemes, mapping, schemeHandles,
          players, player_counter, playersWriter, gpc, piter, epc, inbox, resetting,
          notified, replaced, mutated, notes>>

storeVars == <<entities, events>>
lockVars == <<rwWriter, rwReaders>>
clientVars == <<pc, local, ret>>
tickVars == <<tpc, scan, actions, done, enqueued, snapshot, invoked>>
physVars == <<ppc, collected, colliders, collisions>>
benchVars == <<testLeft, testRight, verdict>>

\* What the threads of the entity store and of the physics workers leave alone.
workerVars == <<alive, token, wpc, step, effects, dpc, seen>>
dispatchVars == <<handlers, drained, delivered, sends, xpc>>
loopVars == <<logics, handles, added>>
inputVars == <<scheme_counter, schemes, mapping, schemeHandles>>
playersVars == <<players, player_counter, playersWriter, gpc, piter, epc, inbox, resetting>>
orderVars == <<mutated, notes>>
lateVars == <<inputVars, playersVars, notified, replaced, orderVars>>
auxVars == <<benchVars, absent, workerVars, dispatchVars, loopVars, lateVars>>

\* What the input manager and the parts after it leave alone.
earlyVars == <<storeVars, systems, lockVars, sysMutex, clientVars, tickVars, physVars,
               benchVars, absent, workerVars, dispatchVars, loopVars>>

\* ------------------------------------------------------------ the store

Ids(store) == 0 .. Len(store) - 1

\* Vec::get(entity_id): the slot, when the index is in range.
GetSlot(store, entity_id) ==
    IF entity_id \in Ids(store) THEN Some(store[entity_id + 1]) ELSE None

\* entities.get(entity_id).and_then(|slot| slot.as_ref())
GetEntity(store, entity_id) ==
    IF entity_id \in Ids(store) THEN store[entity_id + 1] ELSE None

Occupied(store, entity_id) == IsSome(GetEntity(store, entity_id))

Live(store) == {i \in Ids(store) : Occupied(store, i)}

SetSlot(store, entity_id, slot) == [store EXCEPT ![entity_id + 1] = slot]

Min(S) == CHOOSE x \in S : \A y \in S : x <= y

\* A plausible slip: reuse the highest empty slot.
FirstEmptySlotLast(store) ==
    LET empty == {i \in Ids(store) : ~Occupied(store, i)}
    IN  IF empty # {} THEN <<CHOOSE x \in empty : \A y \in empty : y <= x, FALSE>>
        ELSE <<Len(store), TRUE>>

\* iter().position(|slot| slot.is_none()).map(|index| (index, false))
\*     .unwrap_or_else(|| (entities.len(), true))
FirstEmptySlot(store) ==
    LET empty == {i \in Ids(store) : ~Occupied(store, i)}
    IN  IF empty # {} THEN <<Min(empty), FALSE>> ELSE <<Len(store), TRUE>>

\* if should_insert { push(Some(entity)) } else { entities[entity_id] = Some(entity) }
Insert(store, entity_id, should_insert, entity) ==
    IF should_insert THEN Append(store, Some(entity))
    ELSE SetSlot(store, entity_id, Some(entity))

\* ------------------------------------------------------------ the locks

\* A plausible slip: the guard is handed out whoever holds the lock.
WriteLockNotExclusive == TRUE

\* A plausible slip: write() only waits for the readers, as if writers could share.
WriteLockIgnoresWriter == rwReaders = {}

\* RwLock::write: granted when no writer and no reader holds the lock.
WriteLockFree == rwWriter = NoOwner /\ rwReaders = {}

\* RwLock::read: granted when no writer holds the lock.
ReadLockFree == rwWriter = NoOwner

TypeOK ==
    /\ entities \in Seq({None} \cup {Some(v) : v \in Vals})
    /\ Len(entities) <= MaxLen
    /\ DOMAIN systems \subseteq Names
    /\ \A n \in DOMAIN systems : systems[n] \in SysIds \cup {NewerSystem}
    /\ Len(events) <= MaxEvents
    /\ rwWriter \in Clients \cup {Worker, NoOwner}
    /\ rwReaders \subseteq Clients
    /\ sysMutex \in Clients \cup {Worker, NoOwner}
    /\ pc \in [Clients -> {"idle", "writing", "creating", "reading", "iterating"}]
    /\ Len(actions) + Len(done) <= MaxActions
    /\ tpc \in {"idle", "locked", "scan", "apply"}

EmptyMap == [n \in {} |-> "s1"]
NoLocal == [entity |-> 0, entity_id |-> 0, should_insert |-> FALSE, yielded |-> <<>>]
NoRet == <<"none">>
NoScan == [cursor |-> 0, entity_id |-> -1, inner |-> <<>>]

\* No collision test is under way.
BenchIdle ==
    /\ testLeft = None
    /\ testRight = None
    /\ verdict = None

\* The worker threads of the game: the tick runner and the physics worker.
Threads == {"ECS", "Physics"}

\* No worker thread has been spawned.
WorkerIdle ==
    /\ alive = [w \in Threads |-> FALSE]
    /\ token = [w \in Threads |-> FALSE]
    /\ wpc = [w \in Threads |-> "none"]
    /\ step = [w \in Threads |-> 0]
    /\ effects = [w \in Threads |-> 0]
    /\ dpc = [w \in Threads |-> "none"]
    /\ seen = [w \in Threads |-> None]

\* Dispatcher::new: no handler, nothing sent, no dispatch under way.
DispatchIdle ==
    /\ handlers = <<>>
    /\ drained = <<>>
    /\ delivered = <<>>
    /\ sends = 0
    /\ xpc = "idle"

\* Loop::default: no logic, no handle.
LoopIdle ==
    /\ logics = <<>>
    /\ handles = {}
    /\ added = 0

\* Input::new: no scheme is registered.
InputIdle ==
    /\ scheme_counter = 0
    /\ schemes = EmptyMap
    /\ mapping = EmptyMap
    /\ schemeHandles = {}

\* Players::new: no player; the game loop and the events thread are between
\* two passes.
PlayersIdle ==
    /\ players = EmptyMap
    /\ player_counter = 0
    /\ playersWriter = NoOwner
    /\ gpc = "idle"
    /\ piter = None
    /\ epc = "idle"
    /\ inbox = <<>>
    /\ resetting = None

OrderIdle == mutated = <<>> /\ notes = <<>>
LateIdle == InputIdle /\ PlayersIdle /\ notified = {} /\ replaced = {} /\ OrderIdle

AuxIdle == BenchIdle /\ absent = {} /\ WorkerIdle /\ DispatchIdle /\ LoopIdle /\ LateIdle

Init ==
    /\ entities = <<>>
    /\ systems = EmptyMap
    /\ events = <<>>
    /\ rwWriter = NoOwner
    /\ rwReaders = {}
    /\ sysMutex = NoOwner
    /\ pc = [t \in Clients |-> "idle"]
    /\ local = [t \in Clients |-> NoLocal]
    /\ ret = [t \in Clients |-> NoRet]
    /\ tpc = "idle"
    /\ scan = NoScan
    /\ actions = <<>>
    /\ done = <<>>
    /\ enqueued = <<>>
    /\ snapshot = <<>>
    /\ invoked = <<>>
    /\ ppc = "idle"
    /\ collected = EmptyMap
    /\ colliders = EmptyMap
    /\ collisions = {}
    /\ AuxIdle

\* ------------------------------------------------- client calls: writing

\* entities.write() returns: no reader and no writer holds the lock.  Until
\* then the caller is blocked, so the step is not enabled.
LockWrite(t) ==
    /\ pc[t] = "idle"
    /\ WriteLockFree
    /\ rwWriter' = t
    /\ pc' = [pc EXCEPT ![t] = "writing"]
    /\ UNCHANGED <<auxVars, physVars, storeVars, systems, rwReaders, sysMutex, local, ret, tickVars>>

\* create, first half: look for the first empty slot.
CreateFind(t, entity) ==
    /\ pc[t] = "writing"
    /\ LET found == FirstEmptySlot(entities)
       IN  /\ found[1] < MaxLen
           /\ local' = [local EXCEPT ![t] = [entity |-> entity,
                                             entity_id |-> found[1],
                                             should_insert |-> found[2],
                                             yielded |-> <<>>]]
    /\ pc' = [pc EXCEPT ![t] = "creating"]
    /\ UNCHANGED <<auxVars, physVars, storeVars, systems, lockVars, sysMutex, ret, tickVars>>

\* create, second half: insert, notify, return the id.
CreateInsert(t) ==
    /\ pc[t] = "creating"
    /\ Len(events) < MaxEvents
    /\ LET l == local[t]
       IN  /\ entities' = Insert(entities, l.entity_id, l.should_insert, l.entity)
           /\ events' = Append(events, EntityCreated(l.entity_id))
           /\ ret' = [ret EXCEPT ![t] = <<"id", l.entity_id>>]
    /\ pc' = [pc EXCEPT ![t] = "writing"]
    /\ local' = [local EXCEPT ![t] = NoLocal]
    /\ UNCHANGED <<auxVars, physVars, systems, lockVars, sysMutex, tickVars>>

\* A plausible slip: the slot is removed from the vector instead of cleared.
DestroySlotRemove(store, entity_id) ==
    IF IsSome(GetSlot(store, entity_id))
    THEN [store |-> [k \in 1 .. Len(store) - 1 |->
                        IF k < entity_id + 1 THEN store[k] ELSE store[k + 1]],
          sent |-> <<EntityDestroyed(entity_id)>>]
    ELSE [store |-> store, sent |-> <<>>]

\* A plausible slip: the slot is cleared but the notification is forgotten.
DestroySlotSilent(store, entity_id) ==
    IF IsSome(GetSlot(store, entity_id))
    THEN [store |-> SetSlot(store, entity_id, None), sent |-> <<>>]
    ELSE [store |-> store, sent |-> <<>>]

\* A plausible slip: the notification is sent whether or not the id is in range.
DestroySlotAlwaysNotifies(store, entity_id) ==
    [store |-> IF IsSome(GetSlot(store, entity_id))
               THEN SetSlot(store, entity_id, None) ELSE store,
     sent |-> <<EntityDestroyed(entity_id)>>]

\* if let Some(slot) = entities.get_mut(entity_id) { *slot = None; send(EntityDestroyed) }
DestroySlot(store, entity_id) ==
    IF IsSome(GetSlot(store, entity_id))
    THEN [store |-> SetSlot(store, entity_id, None),
          sent |-> <<EntityDestroyed(entity_id)>>]
    ELSE [store |-> store, sent |-> <<>>]

\* destroy_entity / EntitiesWriteLock::destroy
DestroyEntity(t, entity_id) ==
    /\ pc[t] = "writing"
    /\ LET r == DestroySlot(entities, entity_id)
       IN  /\ Len(events) + Len(r.sent) <= MaxEvents
           /\ entities' = r.store
           /\ events' = events \o r.sent
    /\ ret' = [ret EXCEPT ![t] = <<"unit", entity_id>>]
    /\ UNCHANGED <<auxVars, physVars, systems, lockVars, sysMutex, pc, local, tickVars>>

\* A plausible slip: an empty slot in range is filled with a default entity and
\* visited, as Option::get_or_insert_with would do.
VisitSlotMutOrInsert(store, entity_id, visitor) ==
    IF IsSome(GetSlot(store, entity_id))
    THEN LET entity == IF IsSome(GetEntity(store, entity_id))
                       THEN Unwrap(GetEntity(store, entity_id)) ELSE 0
         IN  [store |-> SetSlot(store, entity_id, Some(Call(visitor, entity))),
              result |-> <<"some", Call(visitor, entity)>>,
              called |-> TRUE]
    ELSE [store |-> store, result |-> <<"absent">>, called |-> FALSE]

\* entities.get_mut(entity_id).and_then(|slot| slot.as_mut()).map(visitor)
VisitSlotMut(store, entity_id, visitor) ==
    IF IsSome(GetEntity(store, entity_id))
    THEN [store |-> SetSlot(store, entity_id,
                            Some(Call(visitor, Unwrap(GetEntity(store, entity_id))))),
          result |-> <<"some", Call(visitor, Unwrap(GetEntity(store, entity_id)))>>,
          called |-> TRUE]
    ELSE [store |-> store, result |-> <<"absent">>, called |-> FALSE]

\* visit_entity_mut / EntitiesWriteLock::modify
VisitEntityMut(t, entity_id, visitor) ==
    /\ pc[t] = "writing"
    /\ LET r == VisitSlotMut(entities, entity_id, visitor)
       IN  /\ entities' = r.store
           /\ ret' = [ret EXCEPT ![t] = Append(r.result, r.called)]
    /\ UNCHANGED <<auxVars, physVars, events, systems, lockVars, sysMutex, pc, local, tickVars>>

\* A plausible slip: the guard lives in a block that ends before the
\* notification is sent, so the lock is free once the store has changed.
UnlockWriteBeforeSend(t) ==
    /\ pc[t] \in {"writing", "created", "cleared"}
    /\ rwWriter = t
    /\ rwWriter' = NoOwner
    /\ pc' = [pc EXCEPT ![t] = IF pc[t] = "writing" THEN "idle" ELSE pc[t]]
    /\ ret' = [ret EXCEPT ![t] = IF pc[t] = "writing" THEN NoRet ELSE ret[t]]
    /\ UNCHANGED <<auxVars, physVars, storeVars, systems, rwReaders, sysMutex, local, tickVars>>

\* The write guard is dropped.
UnlockWrite(t) ==
    /\ pc[t] = "writing"
    /\ rwWriter' = NoOwner
    /\ pc' = [pc EXCEPT ![t] = "idle"]
    /\ ret' = [ret EXCEPT ![t] = NoRet]
    /\ UNCHANGED <<auxVars, physVars, storeVars, systems, rwReaders, sysMutex, local, tickVars>>

\* ------------------------------------------------- client calls: reading

\* entities.read() returns: no writer holds the lock.
LockRead(t) ==
    /\ pc[t] = "idle"
    /\ ReadLockFree
    /\ rwReaders' = rwReaders \cup {t}
    /\ pc' = [pc EXCEPT ![t] = "reading"]
    /\ UNCHANGED <<auxVars, physVars, storeVars, systems, rwWriter, sysMutex, local, ret, tickVars>>

\* entities.get(entity_id).and_then(|slot| slot.as_ref()).map(visitor)
VisitSlot(store, entity_id, visitor) ==
    IF IsSome(GetEntity(store, entity_id))
    THEN [result |-> <<"some", Call(visitor, Unwrap(GetEntity(store, entity_id)))>>,
          called |-> TRUE]
    ELSE [result |-> <<"absent">>, called |-> FALSE]

\* visit_entity / EntitiesReadLock::get
VisitEntity(t, entity_id, visitor) ==
    /\ pc[t] = "reading"
    /\ LET r == VisitSlot(entities, entity_id, visitor)
       IN  ret' = [ret EXCEPT ![t] = Append(r.result, r.called)]
    /\ UNCHANGED <<auxVars, physVars, storeVars, systems, lockVars, sysMutex, pc, local, tickVars>>

\* A plausible slip: the iterator ends at the first empty slot instead of
\* skipping it.
EntityIterNextStopAtEmpty(store, entity_id) ==
    IF entity_id < Len(store) /\ IsSome(GetEntity(store, entity_id))
    THEN [item |-> Some(<<entity_id, Unwrap(GetEntity(store, entity_id))>>),
          entity_id |-> entity_id + 1]
    ELSE [item |-> None, entity_id |-> entity_id]

\* EntityIter::next: while entity_id < len { look at the slot; entity_id += 1;
\* return the tuple if the slot holds an entity }; None after the last slot.
RECURSIVE EntityIterNext(_, _)
EntityIterNext(store, entity_id) ==
    IF entity_id < Len(store)
    THEN IF IsSome(GetEntity(store, entity_id))
         THEN [item |-> Some(<<entity_id, Unwrap(GetEntity(store, entity_id))>>),
               entity_id |-> entity_id + 1]
         ELSE EntityIterNext(store, entity_id + 1)
    ELSE [item |-> None, entity_id |-> entity_id]

\* iter_entities / EntitiesRead::iter: a new iterator at id 0; `yielded`
\* collects what next() returns.
IterEntities(t) ==
    /\ pc[t] = "reading"
    /\ pc' = [pc EXCEPT ![t] = "iterating"]
    /\ local' = [local EXCEPT ![t] = NoLocal]
    /\ ret' = [ret EXCEPT ![t] = NoRet]
    /\ UNCHANGED <<auxVars, physVars, storeVars, systems, lockVars, sysMutex, tickVars>>

\* One call of next() by the for loop that consumes the iterator; the loop
\* ends when next() returns None.
IterNext(t) ==
    /\ pc[t] = "iterating"
    /\ LET r == EntityIterNext(entities, local[t].entity_id)
       IN  IF IsSome(r.item)
           THEN /\ local' = [local EXCEPT ![t].entity_id = r.entity_id,
                                          ![t].yielded = Append(@, Unwrap(r.item))]
                /\ UNCHANGED <<physVars, pc, ret>>
           ELSE /\ local' = [local EXCEPT ![t].entity_id = r.entity_id]
                /\ pc' = [pc EXCEPT ![t] = "reading"]
                /\ ret' = [ret EXCEPT ![t] = <<"end">>]
    /\ UNCHANGED <<auxVars, physVars, storeVars, systems, lockVars, sysMutex, tickVars>>

\* The read guard is dropped.
UnlockRead(t) ==
    /\ pc[t] = "reading"
    /\ rwReaders' = rwReaders \ {t}
    /\ pc' = [pc EXCEPT ![t] = "idle"]
    /\ local' = [local EXCEPT ![t] = NoLocal]
    /\ ret' = [ret EXCEPT ![t] = NoRet]
    /\ UNCHANGED <<auxVars, physVars, storeVars, systems, rwWriter, sysMutex, tickVars>>

\* --------------------------------------------------------- the registry

\* A plausible slip: a registered name keeps its system, as
\* entry(name).or_insert(system) would do.
MapInsertKeepsOld(map, name, system) ==
    [n \in DOMAIN map \cup {name} |-> IF n \in DOMAIN map THEN map[n] ELSE system]

\* BTreeMap::insert(name, system)
MapInsert(map, name, system) ==
    [n \in DOMAIN map \cup {name} |-> IF n = name THEN system ELSE map[n]]

\* BTreeMap::remove(name)
MapRemove(map, name) == [n \in DOMAIN map \ {name} |-> map[n]]

AddSystem(name, system) ==
    /\ sysMutex = NoOwner
    /\ systems' = MapInsert(systems, name, system)
    /\ UNCHANGED <<auxVars, physVars, storeVars, lockVars, sysMutex, clientVars, tickVars>>

RemoveSystem(name) ==
    /\ sysMutex = NoOwner
    /\ systems' = MapRemove(systems, name)
    /\ UNCHANGED <<auxVars, physVars, storeVars, lockVars, sysMutex, clientVars, tickVars>>

\* ----------------------------------------------------- the event channel

\* The dispatcher drains the channel: rx.try_iter().collect().
Dispatch ==
    /\ events # <<>>
    /\ events' = <<>>
    /\ UNCHANGED <<auxVars, physVars, entities, systems, lockVars, sysMutex, clientVars, tickVars>>

\* ------------------------------------------------------ the tick runner

\* A plausible slip: the registry is walked in descending name order.
SystemsIterRev(map) ==
    LET order[S \in SUBSET DOMAIN map] ==
            IF S = {} THEN <<>>
            ELSE LET n == CHOOSE x \in S : \A y \in S : y <= x
                 IN  <<n>> \o order[S \ {n}]
    IN  order[DOMAIN map]

\* systems.iter(): the keys of the BTreeMap in ascending order.
SystemsIter(map) ==
    LET order[S \in SUBSET DOMAIN map] ==
            IF S = {} THEN <<>>
            ELSE <<Min(S)>> \o order[S \ {Min(S)}]
    IN  order[DOMAIN map]

\* let mut entities = ecs.entities.write().unwrap();
TickLockEntities ==
    /\ tpc = "idle"
    /\ WriteLockFree
    /\ rwWriter' = Worker
    /\ tpc' = "locked"
    /\ snapshot' = entities
    /\ UNCHANGED <<auxVars, physVars, storeVars, systems, rwReaders, sysMutex, clientVars,
                   scan, actions, done, enqueued, invoked>>

\* let systems = ecs.systems.lock().unwrap(); let mut actions = Vec::new();
TickLockSystems ==
    /\ tpc = "locked"
    /\ sysMutex = NoOwner
    /\ sysMutex' = Worker
    /\ tpc' = "scan"
    /\ scan' = NoScan
    /\ actions' = <<>>
    /\ UNCHANGED <<auxVars, physVars, storeVars, systems, lockVars, clientVars, done, enqueued, snapshot, invoked>>

\* The ids the outer iterator has still to look at.
Ahead(store, cursor) == {i \in Ids(store) : i >= cursor /\ Occupied(store, i)}

\* The outer loop (enumerate + filter_map) yields the next occupied slot and the
\* inner loop starts over the registry; when no slot is left the scan is over.
TickNextEntity ==
    /\ tpc = "scan"
    /\ scan.inner = <<>>
    /\ IF Ahead(entities, scan.cursor) # {}
       THEN LET entity_id == Min(Ahead(entities, scan.cursor))
            IN  /\ scan' = [cursor |-> entity_id + 1,
                            entity_id |-> entity_id,
                            inner |-> SystemsIter(systems)]
                /\ tpc' = "scan"
       ELSE /\ scan' = NoScan
            /\ tpc' = "apply"
    /\ UNCHANGED <<auxVars, physVars, storeVars, systems, lockVars, sysMutex, clientVars,
                   actions, done, enqueued, snapshot, invoked>>

\* A plausible slip: the action is put in front of the queue.
EnqueueFront(queue, action) == <<action>> \o queue

\* SystemArgs::modify / SystemArgs::destroy: self.actions.push(action)
Enqueue(queue, action) == Append(queue, action)

\* A plausible slip: the action is built with a one-based position instead of
\* the entity's id.
RequestsByPosition(entity_id) ==
    {<<>>} \cup {<<Modify(entity_id + 1, func)>> : func \in Closures}
           \cup {<<Destroy(entity_id + 1)>>}

\* What a system may do with its SystemArgs: nothing, or consume them with one
\* modify or one destroy, which target args.entity_id.
Requests(entity_id) ==
    {<<>>} \cup {<<Modify(entity_id, func)>> : func \in Closures}
           \cup {<<Destroy(entity_id)>>}

\* system.invoke(args) for the current entity and the next system.
TickInvoke(request) ==
    /\ tpc = "scan"
    /\ scan.inner # <<>>
    /\ request \in Requests(scan.entity_id)
    /\ Len(actions) + Len(request) <= MaxActions
    /\ LET name == Head(scan.inner)
       IN  invoked' = Append(invoked,
                [entity_id |-> scan.entity_id,
                 name |-> name,
                 system |-> systems[name],
                 entity |-> GetEntity(entities, scan.entity_id),
                 entities |-> entities])
    /\ actions' = IF request = <<>> THEN actions ELSE Enqueue(actions, request[1])
    /\ enqueued' = IF request = <<>> THEN enqueued
                   ELSE Append(enqueued, [action |-> request[1], by |-> Head(scan.inner),
                                          for |-> scan.entity_id])
    /\ scan' = [scan EXCEPT !.inner = Tail(scan.inner)]
    /\ UNCHANGED <<auxVars, physVars, storeVars, systems, lockVars, sysMutex, clientVars,
                   tpc, done, snapshot>>

\* A plausible slip: the closure is called on a copy of the entity, so the
\* store keeps the old value.
ApplyActionOnCopy(store, action) ==
    IF action.kind = "Modify"
    THEN [store |-> store, sent |-> <<>>,
          called |-> IsSome(GetEntity(store, action.entity_id))]
    ELSE IF IsSome(GetSlot(store, action.entity_id))
         THEN [store |-> SetSlot(store, action.entity_id, None),
               sent |-> <<EntityDestroyed(action.entity_id)>>,
               called |-> FALSE]
         ELSE [store |-> store, sent |-> <<>>, called |-> FALSE]

\* A plausible slip: Modify does not check that the slot is still occupied.
ApplyActionUnchecked(store, action) ==
    IF action.kind = "Modify"
    THEN [store |-> IF action.entity_id \in Ids(store)
                    THEN SetSlot(store, action.entity_id, Some(Call(action.func, 0)))
                    ELSE store,
          sent |-> <<>>,
          called |-> action.entity_id \in Ids(store)]
    ELSE IF IsSome(GetSlot(store, action.entity_id))
         THEN [store |-> SetSlot(store, action.entity_id, None),
               sent |-> <<EntityDestroyed(action.entity_id)>>,
               called |-> FALSE]
         ELSE [store |-> store, sent |-> <<>>, called |-> FALSE]

\* match action { Modify(entity_id, func) => ..., Destroy(entity_id) => ... }
ApplyAction(store, action) ==
    IF action.kind = "Modify"
    THEN IF IsSome(GetEntity(store, action.entity_id))
         THEN [store |-> SetSlot(store, action.entity_id,
                    Some(Call(action.func, Unwrap(GetEntity(store, action.entity_id))))),
               sent |-> <<>>,
               called |-> TRUE]
         ELSE [store |-> store, sent |-> <<>>, called |-> FALSE]
    ELSE IF IsSome(GetSlot(store, action.entity_id))
         THEN [store |-> SetSlot(store, action.entity_id, None),
               sent |-> <<EntityDestroyed(action.entity_id)>>,
               called |-> FALSE]
         ELSE [store |-> store, sent |-> <<>>, called |-> FALSE]

\* A plausible slip: the queue is drained from the back (pop).
NextActionLast(queue) == Len(queue)

\* for action in actions: the front of the queue comes first.
NextAction(queue) == 1

\* One turn of the loop over the deferred actions.
TickApply ==
    /\ tpc = "apply"
    /\ actions # <<>>
    /\ LET k == NextAction(actions)
           r == ApplyAction(entities, actions[k])
       IN  /\ Len(events) + Len(r.sent) <= MaxEvents
           /\ entities' = r.store
           /\ events' = events \o r.sent
           /\ done' = Append(done, [action |-> actions[k], called |-> r.called,
                                    sent |-> r.sent,
                                    slot |-> GetEntity(r.store, actions[k].entity_id)])
           /\ actions' = [i \in 1 .. Len(actions) - 1 |->
                             IF i < k THEN actions[i] ELSE actions[i + 1]]
    /\ UNCHANGED <<auxVars, physVars, systems, lockVars, sysMutex, clientVars, tpc, scan,
                   enqueued, snapshot, invoked>>

\* worker_func returns: both guards are dropped.
TickUnlock ==
    /\ tpc = "apply"
    /\ actions = <<>>
    /\ rwWriter' = NoOwner
    /\ sysMutex' = NoOwner
    /\ tpc' = "idle"
    /\ done' = <<>>
    /\ enqueued' = <<>>
    /\ snapshot' = <<>>
    /\ invoked' = <<>>
    /\ UNCHANGED <<auxVars, physVars, storeVars, systems, rwReaders, clientVars, scan, actions>>

\* ----------------------------------------------------- the specification

Next ==
    \/ \E t \in Clients : LockWrite(t)
    \/ \E t \in Clients, entity \in Vals : CreateFind(t, entity)
    \/ \E t \in Clients : CreateInsert(t)
    \/ \E t \in Clients, entity_id \in 0 .. MaxLen : DestroyEntity(t, entity_id)
    \/ \E t \in Clients, entity_id \in 0 .. MaxLen, visitor \in Closures :
          VisitEntityMut(t, entity_id, visitor)
    \/ \E t \in Clients : UnlockWrite(t)
    \/ \E t \in Clients : LockRead(t)
    \/ \E t \in Clients, entity_id \in 0 .. MaxLen, visitor \in Closures :
          VisitEntity(t, entity_id, visitor)
    \/ \E t \in Clients : IterEntities(t)
    \/ \E t \in Clients : IterNext(t)
    \/ \E t \in Clients : UnlockRead(t)
    \/ \E name \in Names, system \in SysIds : AddSystem(name, system)
    \/ \E name \in Names : RemoveSystem(name)
    \/ Dispatch
    \/ TickLockEntities
    \/ TickLockSystems
    \/ TickNextEntity
    \/ \E request \in Requests(scan.entity_id) : TickInvoke(request)
    \/ TickApply
    \/ TickUnlock

Spec == Init /\ [][Next]_vars

\* ------------------------------------------------------------ properties

\* The lowest index whose slot is empty, or the length when none is.
LowestEmpty(store) ==
    CHOOSE i \in 0 .. Len(store) :
        /\ i = Len(store) \/ ~Occupied(store, i)
        /\ \A j \in 0 .. i - 1 : Occupied(store, j)

\* The deferred actions a history sequence records.
ActionsOf(history) == [k \in DOMAIN history |-> history[k].action]

\* The value an entity holds after the Modify closures that `queue` holds for
\* entity_id were called on it in order.
RECURSIVE ModifiedValue(_, _, _)
ModifiedValue(entity, queue, entity_id) ==
    IF queue = <<>> THEN entity
    ELSE LET a == Head(queue)
         IN  ModifiedValue(
                 IF a.kind = "Modify" /\ a.entity_id = entity_id
                 THEN Call(a.func, entity) ELSE entity,
                 Tail(queue), entity_id)

DestroyQueued(queue, entity_id) ==
    \E k \in DOMAIN queue :
        queue[k].kind = "Destroy" /\ queue[k].entity_id = entity_id

\* The tick has applied its last deferred action and still holds the lock.
TickFinished == tpc = "apply" /\ actions = <<>>

\* C1. Slot reuse: create returns the lowest index whose slot is empty just
\* before the insertion (the store length when no slot is empty); that slot
\* was not occupied by a live entity, and holds the new entity afterwards.
C1_SlotReuse ==
    [][\A t \in Clients :
          CreateInsert(t) =>
              /\ ret'[t] = <<"id", LowestEmpty(entities)>>
              /\ ~Occupied(entities, ret'[t][2])
              /\ Occupied(entities', ret'[t][2])]_vars

\* A create has just returned id 0 although the store already had MaxLen
\* slots: an emptied slot was reused.
C1_Reused ==
    \E t \in Clients :
        pc[t] = "writing" /\ ret[t] = <<"id", 0>> /\ Len(entities) = MaxLen

\* Every read a system makes during a tick (its current entity and the store
\* it reaches through get_entity) shows the store as it was when the tick
\* began, whatever was enqueued before the read.
ReadsArePreTick ==
    \A k \in DOMAIN invoked :
        /\ invoked[k].entities = snapshot
        /\ invoked[k].entity = GetEntity(snapshot, invoked[k].entity_id)

\* The entity holds the result of the Modify closures enqueued against it.
ModifiesVisible(entity_id) ==
    /\ Occupied(entities, entity_id)
    /\ Unwrap(GetEntity(entities, entity_id))
         = ModifiedValue(Unwrap(GetEntity(snapshot, entity_id)),
                         ActionsOf(enqueued), entity_id)

PairBefore(p, q) == p[1] < q[1] \/ (p[1] = q[1] /\ p[2] < q[2])

ExpectedInvocations(store, map) ==
    LET pairs == Live(store) \X DOMAIN map
    IN  [k \in 1 .. Cardinality(pairs) |->
            CHOOSE p \in pairs :
                Cardinality({q \in pairs : PairBefore(q, p)}) = k - 1]

\* C3. Tick order: when the scan is over every registered system has been
\* invoked exactly once for every entity live at the start of the tick, by
\* ascending entity id and, for one entity, by ascending system name; and no
\* deferred action is applied while the scan is running.
C3_TickOrder ==
    /\ tpc = "apply" =>
          [k \in DOMAIN invoked |-> <<invoked[k].entity_id, invoked[k].name>>]
              = ExpectedInvocations(snapshot, systems)
    /\ tpc \in {"locked", "scan"} => done = <<>>
    /\ tpc = "scan" =>
          \A k \in DOMAIN invoked :
              <<invoked[k].entity_id, invoked[k].name>>
                  = ExpectedInvocations(snapshot, systems)[k]

\* Two systems have been invoked for each of two entities.
C3_FullScan == tpc = "apply" /\ Len(invoked) = 4 /\ Cardinality(DOMAIN systems) = 2

\* The store after the actions of `history` were applied to `store` in order.
RECURSIVE StoreAfter(_, _)
StoreAfter(store, queue) ==
    IF queue = <<>> THEN store
    ELSE StoreAfter(ApplyAction(store, Head(queue)).store, Tail(queue))

\* C4. No structural mutation during the scan: from the moment the tick holds
\* the write lock until its last system invocation the store equals its
\* pre-tick content; until the lock is released no client is inside a store
\* operation, and the store differs from the pre-tick content only by the
\* tick's own deferred actions.
C4_ScanSnapshot ==
    tpc # "idle" =>
        /\ rwWriter = Worker
        /\ rwReaders = {}
        /\ \A t \in Clients : pc[t] = "idle"
        /\ tpc \in {"locked", "scan"} => entities = snapshot
        /\ tpc = "apply" => entities = StoreAfter(snapshot, ActionsOf(done))

\* The scan is under way, actions are queued, and the store is untouched.
C4_MidScan ==
    /\ tpc = "scan"
    /\ Len(invoked) >= 2
    /\ actions # <<>>
    /\ Live(entities) # {}

\* C5. The deferred actions are applied in the order the invocations pushed
\* them, which is ascending entity id and then ascending system name, and
\* none is applied before the scan is over.
C5_FifoApply ==
    /\ ActionsOf(done) \o actions = ActionsOf(enqueued)
    /\ \A j, k \in DOMAIN enqueued :
          j < k => PairBefore(<<enqueued[j].action.entity_id, enqueued[j].by>>,
                              <<enqueued[k].action.entity_id, enqueued[k].by>>)
    /\ done # <<>> => tpc = "apply"

\* Two different actions have been applied.
C5_TwoApplied ==
    /\ tpc = "apply"
    /\ Len(done) = 2
    /\ done[1].action # done[2].action
    /\ actions = <<>>

\* C6. Destroy idempotence: a destroy of an id whose slot is already empty
\* leaves the store unchanged and sends no EntityDestroyed.
C6_DestroyIdempotent ==
    [][\A t \in Clients, entity_id \in 0 .. MaxLen :
          (/\ DestroyEntity(t, entity_id)
           /\ entity_id \in Ids(entities)
           /\ ~Occupied(entities, entity_id))
          => (entities' = entities /\ events' = events)]_vars

\* C7. A deferred Destroy of an entity that an earlier action of the batch
\* removed is a no-op: in one tick at most one EntityDestroyed is sent for an
\* id, and a Destroy applied to an empty slot sends nothing.
C7_SingleDestroyed ==
    \A j, k \in DOMAIN done :
        (/\ j < k
         /\ done[j].action = Destroy(done[k].action.entity_id)
         /\ done[k].action.kind = "Destroy")
        => done[k].sent = <<>>

\* C8. A deferred Modify of an entity that an earlier Destroy of the batch
\* removed is a no-op: the closure is not called, the slot stays empty and no
\* notification is sent.
C8_ModifyAfterDestroy ==
    \A j, k \in DOMAIN done :
        (/\ j < k
         /\ done[j].action = Destroy(done[k].action.entity_id)
         /\ done[k].action.kind = "Modify")
        => (/\ ~done[k].called
            /\ done[k].slot = None
            /\ done[k].sent = <<>>
            /\ ~Occupied(entities, done[k].action.entity_id))

\* A Destroy and then a Modify of the same entity have been applied.
C8_DestroyThenModify ==
    /\ Len(done) = 2
    /\ done[1].action.kind = "Destroy"
    /\ done[1].sent # <<>>
    /\ done[2].action.kind = "Modify"
    /\ done[2].action.entity_id = done[1].action.entity_id

\* C9. Concurrent creates are serialized: while one client is between the
\* search for the first empty slot and the insertion, no other client or the
\* worker holds or can take the lock, and the slot it found is still the
\* first empty one, so the insertion overwrites nobody's entity.
C9_CreateSerialized ==
    \A t \in Clients :
        pc[t] \in {"writing", "creating"} =>
            /\ rwWriter = t
            /\ tpc = "idle"
            /\ \A u \in Clients \ {t} : pc[u] = "idle" /\ ~ENABLED LockWrite(u)
            /\ pc[t] = "creating" =>
                  /\ local[t].entity_id = LowestEmpty(entities)
                  /\ ~Occupied(entities, local[t].entity_id)

\* A client is in the middle of a create that found slot 1, slot 0 holding an
\* entity created before, while the other client is blocked.
C9_SecondCreate ==
    /\ pc["c1"] = "creating"
    /\ local["c1"].entity_id = 1
    /\ Occupied(entities, 0)
    /\ ~ENABLED LockWrite("c2")

\* A step that destroys entity_id clears that slot and nothing else.
OnlyClears(entity_id) ==
    /\ Len(entities') = Len(entities)
    /\ \A i \in Ids(entities) :
          entities'[i + 1] = IF i = entity_id THEN None ELSE entities[i + 1]

\* C10. The length of the store never decreases, and a destroy, direct or
\* deferred, sets the target slot to empty and leaves the index and content
\* of every other slot unchanged.
C10_LengthOnlyGrows ==
    [][/\ Len(entities') >= Len(entities)
       /\ \A t \in Clients, entity_id \in 0 .. MaxLen :
             DestroyEntity(t, entity_id) => OnlyClears(entity_id)
       /\ (TickApply /\ actions[1].kind = "Destroy")
             => OnlyClears(actions[1].entity_id)]_vars

\* Slot 0 has been destroyed in a store of two slots, and slot 1 is intact.
C10_HoleBelow ==
    /\ Len(entities) = 2
    /\ entities[1] = None
    /\ IsSome(entities[2])

\* C11. Every create emits exactly one EntityCreated carrying the returned id,
\* and every destroy of an occupied slot, direct or deferred, empties the slot
\* and emits exactly one EntityDestroyed carrying that id.
C11_OneNotification ==
    [][/\ \A t \in Clients :
             CreateInsert(t) =>
                /\ ret'[t][1] = "id"
                /\ Occupied(entities', ret'[t][2])
                /\ events' = Append(events, EntityCreated(ret'[t][2]))
       /\ \A t \in Clients, entity_id \in 0 .. MaxLen :
             (DestroyEntity(t, entity_id) /\ Occupied(entities, entity_id)) =>
                /\ entities'[entity_id + 1] = None
                /\ events' = Append(events, EntityDestroyed(entity_id))
       /\ (TickApply /\ actions[NextAction(actions)].kind = "Destroy"
                     /\ Occupied(entities, actions[NextAction(actions)].entity_id)) =>
             LET entity_id == actions[NextAction(actions)].entity_id
             IN  /\ entities'[entity_id + 1] = None
                 /\ events' = Append(events, EntityDestroyed(entity_id))]_vars

\* The first deferred action of a tick was a Destroy of an entity that was
\* alive when the tick began; the slot is empty and its one notification is in
\* the channel.
C11_DeferredDestroyNotified ==
    /\ tpc = "apply"
    /\ Len(done) = 1
    /\ done[1].action.kind = "Destroy"
    /\ Occupied(snapshot, done[1].action.entity_id)
    /\ entities[done[1].action.entity_id + 1] = None
    /\ events = <<EntityDestroyed(done[1].action.entity_id)>>

\* C12. Destroying an id at or beyond the length of the store changes neither
\* the store nor its length and sends no notification.
C12_DestroyOutOfRange ==
    [][\A t \in Clients, entity_id \in 0 .. MaxLen :
          (DestroyEntity(t, entity_id) /\ entity_id >= Len(entities)) =>
             UNCHANGED <<entities, events>>]_vars

\* A client's last call under its write lock was a destroy of an id beyond the
\* end of a non-empty store, and the channel is empty.
C12_DestroyedBeyondEnd ==
    \E t \in Clients :
        /\ pc[t] = "writing"
        /\ ret[t][1] = "unit"
        /\ ret[t][2] >= Len(entities)
        /\ Len(entities) > 0
        /\ events = <<>>

\* C13. A visit of an empty or out-of-range slot returns absence without
\* calling the visitor and leaves the store unchanged; a visit of an occupied
\* slot returns the visitor's result for the entity in that slot.
C13_VisitAbsence ==
    [][/\ \A t \in Clients, entity_id \in 0 .. MaxLen, visitor \in Closures :
             VisitEntity(t, entity_id, visitor) =>
                /\ entities' = entities
                /\ ret'[t] = IF Occupied(entities, entity_id)
                             THEN <<"some", Call(visitor, entities[entity_id + 1][1]), TRUE>>
                             ELSE <<"absent", FALSE>>
       /\ \A t \in Clients, entity_id \in 0 .. MaxLen, visitor \in Closures :
             VisitEntityMut(t, entity_id, visitor) =>
                IF Occupied(entities, entity_id)
                THEN /\ ret'[t] = <<"some", Call(visitor, entities[entity_id + 1][1]), TRUE>>
                     /\ entities' = SetSlot(entities, entity_id,
                                        Some(Call(visitor, entities[entity_id + 1][1])))
                ELSE /\ ret'[t] = <<"absent", FALSE>>
                     /\ entities' = entities]_vars

\* A writer was told that a slot is absent while the store has an empty slot
\* below an occupied one, both untouched by the call.
C13_AbsentReturned ==
    \E t \in Clients :
        /\ pc[t] = "writing"
        /\ ret[t] = <<"absent", FALSE>>
        /\ Len(entities) = 2
        /\ entities[1] = None
        /\ IsSome(entities[2])

\* The occupied slots of a store in ascending id order, each with its entity.
RECURSIVE OccupiedFrom(_, _)
OccupiedFrom(store, entity_id) ==
    IF entity_id >= Len(store) THEN <<>>
    ELSE IF store[entity_id + 1] = None THEN OccupiedFrom(store, entity_id + 1)
    ELSE <<<<entity_id, store[entity_id + 1][1]>>>> \o OccupiedFrom(store, entity_id + 1)

\* C14. An iteration yields exactly the occupied slots, each once, in ascending
\* id order, each with the entity stored at that id, and ends after the last
\* slot: what has been yielded so far and what is still ahead of the cursor
\* always make up the occupied slots of the store.
C14_IterateOccupied ==
    \A t \in Clients :
        /\ pc[t] = "iterating" =>
              local[t].yielded \o OccupiedFrom(entities, local[t].entity_id)
                 = OccupiedFrom(entities, 0)
        /\ (pc[t] = "reading" /\ ret[t] = <<"end">>) =>
              /\ local[t].yielded = OccupiedFrom(entities, 0)
              /\ local[t].entity_id = Len(entities)

\* An iteration over a store whose slot 0 is empty has ended, having yielded
\* slot 1 only.
C14_SkippedHole ==
    \E t \in Clients :
        /\ pc[t] = "reading"
        /\ ret[t] = <<"end">>
        /\ Len(entities) = 2
        /\ entities[1] = None
        /\ Len(local[t].yielded) = 1
        /\ local[t].yielded[1][1] = 1

InitRegistry ==
    /\ entities \in {<<Some(0)>>, <<Some(0), Some(1)>>, <<None, Some(1)>>}
    /\ systems = [n \in {1} |-> "s1"]
    /\ events = <<>>
    /\ rwWriter = NoOwner
    /\ rwReaders = {}
    /\ sysMutex = NoOwner
    /\ pc = [t \in Clients |-> "idle"]
    /\ local = [t \in Clients |-> NoLocal]
    /\ ret = [t \in Clients |-> NoRet]
    /\ tpc = "idle"
    /\ scan = NoScan
    /\ actions = <<>>
    /\ done = <<>>
    /\ enqueued = <<>>
    /\ snapshot = <<>>
    /\ invoked = <<>>
    /\ ppc = "idle"
    /\ collected = EmptyMap
    /\ colliders = EmptyMap
    /\ collisions = {}
    /\ AuxIdle

\* Newer systems are added under either name and the second name is removed,
\* registered or not, while ticks run; the first name is never removed, so it
\* holds the newer system only by an overwrite.
NextRegistry ==
    \/ \E name \in Names : AddSystem(name, NewerSystem)
    \/ RemoveSystem(2)
    \/ Dispatch
    \/ TickLockEntities
    \/ TickLockSystems
    \/ TickNextEntity
    \/ \E request \in Requests(scan.entity_id) : TickInvoke(request)
    \/ TickApply
    \/ TickUnlock

SpecRegistry == InitRegistry /\ [][NextRegistry]_vars

\* add_system(name, system) leaves the registry holding `system` under `name`
\* and every other name as it was.
Overwritten(name, system) ==
    /\ DOMAIN systems' = DOMAIN systems \cup {name}
    /\ systems'[name] = system
    /\ \A n \in DOMAIN systems \ {name} : systems'[n] = systems[n]

\* C16. add_system under a registered name replaces the system of that name and
\* of no other, so that each name holds one system, the one added last, and a
\* tick invokes under each name the system the registry holds; remove_system of
\* an unregistered name leaves the registry unchanged.
C16_AddOverwrites ==
    /\ sysMutex = NoOwner =>
          \A name \in Names, system \in SysIds \cup {NewerSystem} :
             /\ ENABLED (AddSystem(name, system) /\ Overwritten(name, system))
             /\ ~ENABLED (AddSystem(name, system) /\ ~Overwritten(name, system))
    /\ \A name \in Names \ DOMAIN systems :
          ~ENABLED (RemoveSystem(name) /\ systems' # systems)
    /\ \A k \in DOMAIN invoked : invoked[k].system = systems[invoked[k].name]

\* The first name held the older system after the setup and was never
\* removed; now a tick invokes the newer system under it.
C16_NewerInvoked ==
    /\ tpc = "scan"
    /\ systems[1] = NewerSystem
    /\ \E k \in DOMAIN invoked :
          invoked[k].name = 1 /\ invoked[k].system = NewerSystem

\* ------------------------------------- the game: systems, controller, physics

\* consts::BULLET_COLLIDER and the like: one collider at the entity's origin.
DefaultCollider == [center |-> 0, radius |-> 1]

\* PointCollider::transform
Transform(collider, position) ==
    [center |-> position + collider.center, radius |-> collider.radius]

Distance(a, b) == IF a >= b THEN a - b ELSE b - a

\* point_point_collision_test
CollisionTest(left, right) ==
    Distance(left.center, right.center) <= left.radius + right.radius

\* iter_entities of collect_collisions: the entities that have a collider.
Collidable(store) == {id \in Live(store) : HasCollider(store[id + 1][1])}

\* The (left, right) pairs that pass the two filters of collect_collisions.
Hits(store) ==
    {h \in Collidable(store) \X Collidable(store) :
        /\ h[1] > h[2]
        /\ CollisionTest(Transform(DefaultCollider, store[h[1] + 1][1].position),
                         Transform(DefaultCollider, store[h[2] + 1][1].position))}

\* collect_collisions: every pair is folded into the map under both ids.
CollectCollisions(store) ==
    [id \in {h[1] : h \in Hits(store)} \cup {h[2] : h \in Hits(store)} |->
        {h[2] : h \in {x \in Hits(store) : x[1] = id}}
            \cup {h[1] : h \in {x \in Hits(store) : x[2] = id}}]

\* A plausible slip: a target that is gone is created anew to hold its results.
RECURSIVE StoreCollisionsOrInsert(_, _)
StoreCollisionsOrInsert(store, map) ==
    IF DOMAIN map = {} THEN store
    ELSE LET entity_id == Min(DOMAIN map)
             stored ==
                 IF Occupied(store, entity_id) \/ entity_id \notin Ids(store)
                 THEN VisitSlotMut(store, entity_id, <<"collisions", map[entity_id]>>).store
                 ELSE SetSlot(store, entity_id,
                              Some(ExtendCollisions(NewEntity("Asteroid", 0), map[entity_id])))
         IN  StoreCollisionsOrInsert(stored, MapRemove(map, entity_id))

\* store_collisions: for (entity_id, collisions) in collisions { entities.modify(..) }
RECURSIVE StoreCollisions(_, _)
StoreCollisions(store, map) ==
    IF DOMAIN map = {} THEN store
    ELSE LET entity_id == Min(DOMAIN map)
         IN  StoreCollisions(
                 VisitSlotMut(store, entity_id, <<"collisions", map[entity_id]>>).store,
                 MapRemove(map, entity_id))

\* ecs.write().create(entity): an asteroid or bullet is spawned, a player joins.
Spawn(variant, position) ==
    /\ WriteLockFree
    /\ events = <<>>
    /\ LET found == FirstEmptySlot(entities)
       IN  /\ found[1] < MaxLen
           /\ entities' = Insert(entities, found[1], found[2], NewEntity(variant, position))
           /\ events' = Append(events, EntityCreated(found[1]))
    /\ UNCHANGED <<auxVars, systems, lockVars, sysMutex, clientVars, tickVars, physVars>>

\* A tick whose entity_despawn_system or entity_collision_system called
\* args.destroy() for a live entity.
Despawn(entity_id) ==
    /\ WriteLockFree
    /\ entity_id \in Live(entities)
    /\ events = <<>>
    /\ LET r == ApplyAction(entities, Destroy(entity_id))
       IN  /\ entities' = r.store
           /\ events' = events \o r.sent
    /\ UNCHANGED <<auxVars, systems, lockVars, sysMutex, clientVars, tickVars, physVars>>

\* A tick whose movement system called args.modify(|entity| ...position = ..).
SystemModify(entity_id, func) ==
    /\ WriteLockFree
    /\ entity_id \in Live(entities)
    /\ entities' = ApplyAction(entities, Modify(entity_id, func)).store
    /\ UNCHANGED <<auxVars, events, systems, lockVars, sysMutex, clientVars, tickVars, physVars>>

\* Controller::camera_follow_toggle: ecs.write().modify(camera_id, closure)
\* with the id the controller remembers, whatever occupies that slot now.
ControllerModify(entity_id, func) ==
    /\ WriteLockFree
    /\ entities' = VisitSlotMut(entities, entity_id, func).store
    /\ UNCHANGED <<auxVars, events, systems, lockVars, sysMutex, clientVars, tickVars, physVars>>

\* worker_func of the physics worker, first half: collect under the read lock.
PhysicsCollect ==
    /\ ppc = "idle"
    /\ ReadLockFree
    /\ collected' = CollectCollisions(entities)
    /\ ppc' = "collected"
    /\ absent' = {}
    /\ replaced' = {}
    /\ UNCHANGED <<inputVars, playersVars, notified, orderVars, benchVars, workerVars, dispatchVars,
                   loopVars, storeVars, systems, lockVars, sysMutex, clientVars, tickVars,
                   colliders, collisions>>

\* worker_func of the physics worker, second half: store under the write lock.
PhysicsStore ==
    /\ ppc = "collected"
    /\ WriteLockFree
    /\ entities' = StoreCollisions(entities, collected)
    /\ collected' = EmptyMap
    /\ ppc' = "idle"
    /\ absent' = {entity_id \in DOMAIN collected : ~Occupied(entities, entity_id)}
    /\ UNCHANGED <<lateVars, benchVars, workerVars, dispatchVars, loopVars, events, systems, lockVars, sysMutex, clientVars, tickVars,
                   colliders, collisions>>

NextGame ==
    \/ \E variant \in Variants, position \in Positions : Spawn(variant, position)
    \/ \E entity_id \in 0 .. MaxLen - 1 : Despawn(entity_id)
    \/ \E entity_id \in 0 .. MaxLen - 1, func \in SystemClosures :
          SystemModify(entity_id, func)
    \/ \E entity_id \in 0 .. MaxLen, func \in ControllerClosures :
          ControllerModify(entity_id, func)
    \/ PhysicsCollect
    \/ PhysicsStore
    \/ Dispatch

SpecGame == Init /\ [][NextGame]_vars

\* C17. An entity keeps its variant for as long as it occupies its slot: no
\* step of a system, the controller or the physics worker changes it.
C17_VariantFixed ==
    [][\A entity_id \in Ids(entities) :
          (Occupied(entities, entity_id) /\ Occupied(entities', entity_id)) =>
             entities'[entity_id + 1][1].variant = entities[entity_id + 1][1].variant]_vars

\* A camera whose follow flag was toggled by the controller shares the store
\* with a spacecraft that was moved by a system and has a collision stored on
\* it by the physics worker.
C17_AllModified ==
    \E a, b \in Live(entities) :
        /\ entities[a + 1][1].variant = "Camera"
        /\ ~entities[a + 1][1].follow
        /\ entities[b + 1][1].variant = "Spacecraft"
        /\ entities[b + 1][1].position = 3
        /\ entities[b + 1][1].collisions # {}

\* The collision results stored on the entity of a slot; none without a
\* collider component.
Stored(store, entity_id) ==
    IF Occupied(store, entity_id) /\ HasCollider(store[entity_id + 1][1])
    THEN store[entity_id + 1][1].collisions ELSE {}

\* C18. After every physics tick, for all pairs of entities A and B, A is in
\* the collision results stored on B iff B is in those stored on A.
C18_Symmetry ==
    [][PhysicsStore =>
          \A a, b \in Live(entities') :
             (a \in Stored(entities', b)) <=> (b \in Stored(entities', a))]_vars

\* C19. When a physics tick finds two entities overlapping the collision is
\* recorded on both, and after a tick that finds them apart no collision
\* between them is recorded on either.
C19_TracksCurrentTick ==
    [][PhysicsStore =>
          \A a, b \in Collidable(entities') :
             IF a \in DOMAIN collected /\ b \in collected[a]
             THEN b \in Stored(entities', a)
             ELSE b \notin Stored(entities', a)]_vars

\* ------------------------------------------ physics with a diff (physics.rs)

DEFAULT_RADIUS == 1

\* type Collider = [Vec2; 3], on a line: the two ends of a segment around the
\* origin of the entity.
DefaultColliders == {<<-1, 1>>}

\* translate_rotate
TranslateRotate(collider, position) == <<collider[1] + position, collider[2] + position>>

\* point_collider_test: the point is not strictly outside the collider.
PointColliderTest(point, collider) == collider[1] <= point /\ point <= collider[2]

\* collision_test: a corner of one collider lies in the other.
GroupCollisionTest(left, right) ==
    \/ \E k \in 1 .. 2 : PointColliderTest(left[k], right)
    \/ \E k \in 1 .. 2 : PointColliderTest(right[k], left)

\* BULLET_COLLIDERS: two colliders that share a side through the origin.
BulletColliders == {<<-1, 0>>, <<0, 1>>}

\* The ColliderGroup the EntityCreated handler builds for an entity.
ColliderGroup(entity) ==
    [position |-> entity.position, radius |-> DEFAULT_RADIUS,
     colliders |-> IF entity.variant = "Bullet" THEN BulletColliders ELSE DefaultColliders]

\* Event::CollisionStarted(collision), Event::CollisionFinished(collision); a
\* collision is the BTreeSet of the two entity ids.
CollisionStarted(collision) == <<"CollisionStarted", collision>>
CollisionFinished(collision) == <<"CollisionFinished", collision>>

\* A plausible slip: the group of a destroyed entity is kept.
HandleEventKeeps(groups, store, event) ==
    IF event[1] = "EntityCreated"
    THEN IF Occupied(store, event[2]) /\ HasCollider(store[event[2] + 1][1])
         THEN MapInsert(groups, event[2], ColliderGroup(store[event[2] + 1][1]))
         ELSE groups
    ELSE groups

\* A plausible slip: the group is removed only while the slot is still empty.
HandleEventChecked(groups, store, event) ==
    IF event[1] = "EntityCreated"
    THEN IF Occupied(store, event[2]) /\ HasCollider(store[event[2] + 1][1])
         THEN MapInsert(groups, event[2], ColliderGroup(store[event[2] + 1][1]))
         ELSE groups
    ELSE IF event[1] = "EntityDestroyed" /\ ~Occupied(store, event[2])
         THEN MapRemove(groups, event[2])
    ELSE groups

\* The handler Physics::new adds to the dispatcher, for one event.
HandleEvent(groups, store, event) ==
    IF event[1] = "EntityCreated"
    THEN IF Occupied(store, event[2]) /\ HasCollider(store[event[2] + 1][1])
         THEN MapInsert(groups, event[2], ColliderGroup(store[event[2] + 1][1]))
         ELSE groups
    ELSE IF event[1] = "EntityDestroyed" THEN MapRemove(groups, event[2])
    ELSE groups

\* Dispatcher::dispatch: every drained message goes to the handler, in order.
RECURSIVE HandleAll(_, _, _)
HandleAll(groups, store, messages) ==
    IF messages = <<>> THEN groups
    ELSE HandleAll(HandleEvent(groups, store, Head(messages)), store, Tail(messages))

\* The dispatcher thread drains the channel while no writer holds the store
\* (the handler reads it with visit_entity). The handler takes the colliders
\* mutex with lock().unwrap(): once update has panicked under that mutex it is
\* poisoned and the dispatcher thread ends in the handler; the notifications
\* it never handled are kept in `events`.
DispatchToPhysics ==
    /\ events # <<>>
    /\ ReadLockFree
    /\ ppc # "panicked"
    /\ colliders' = HandleAll(colliders, entities, events)
    /\ events' = <<>>
    /\ UNCHANGED <<auxVars, entities, systems, lockVars, sysMutex, clientVars, tickVars,
                   ppc, collected, collisions>>

\* Physics::update: every group takes the position of its entity, if the slot
\* holds one; a camera in the slot of a group is unreachable!() and ends the
\* worker thread.
PhysicsUpdate ==
    /\ ppc = "idle"
    /\ ReadLockFree
    /\ IF \E entity_id \in DOMAIN colliders :
             Occupied(entities, entity_id) /\ ~HasCollider(entities[entity_id + 1][1])
       THEN /\ ppc' = "panicked"
            /\ UNCHANGED colliders
       ELSE /\ ppc' = "updated"
            /\ colliders' = [entity_id \in DOMAIN colliders |->
                                IF Occupied(entities, entity_id)
                                THEN [colliders[entity_id] EXCEPT
                                        !.position = entities[entity_id + 1][1].position]
                                ELSE colliders[entity_id]]
    /\ UNCHANGED <<auxVars, storeVars, systems, lockVars, sysMutex, clientVars, tickVars,
                   collected, collisions>>

\* resolve, the second filter: the broad phase on the origins and radii of the
\* two groups.
RadiusFilter(left, right) ==
    Distance(left.position, right.position) < left.radius + right.radius

\* resolve, struct Item: one per collider of every group, already moved to
\* the group's position.
Items(groups) ==
    UNION {{[entity_id |-> entity_id,
             radius |-> groups[entity_id].radius,
             position |-> groups[entity_id].position,
             collider |-> TranslateRotate(collider, groups[entity_id].position)] :
               collider \in groups[entity_id].colliders} : entity_id \in DOMAIN groups}

\* A plausible slip: the colliders of one entity are let through.
EntityFilterOrEqual(left, right) == left.entity_id <= right.entity_id

\* resolve, the first filter: every pair of entities in one order only.
EntityFilter(left, right) == left.entity_id < right.entity_id

\* The (left, right) items that resolve goes on to test.
Candidates(groups) ==
    {pair \in Items(groups) \X Items(groups) : EntityFilter(pair[1], pair[2])}

\* resolve, the pipeline up to collect: the candidates that pass the radius
\* filter and collision_test, each as the set of its two entity ids.
CurrentCollisions(groups) ==
    {{pair[1].entity_id, pair[2].entity_id} :
        pair \in {candidate \in Candidates(groups) :
                    /\ RadiusFilter(candidate[1], candidate[2])
                    /\ GroupCollisionTest(candidate[1].collider, candidate[2].collider)}}

\* The order of BTreeSet<BTreeSet<EntityId>>: by the smaller id, then the larger.
Max(S) == CHOOSE x \in S : \A y \in S : y <= x
CollisionLess(c, d) ==
    \/ Min(c) < Min(d)
    \/ Min(c) = Min(d) /\ Max(c) < Max(d)

\* A plausible slip: the two sets are swapped.
DifferenceSwapped(left, right) == right \ left

\* BTreeSet::difference
Difference(left, right) == left \ right

\* Iterating a BTreeSet: ascending.
RECURSIVE Ascending(_)
Ascending(set) ==
    IF set = {} THEN <<>>
    ELSE LET first == CHOOSE c \in set : \A d \in set \ {c} : CollisionLess(c, d)
         IN  <<first>> \o Ascending(set \ {first})

\* A plausible slip: every collision found is announced, not the new ones.
PublishCurrent(current, previous) ==
    [k \in DOMAIN Ascending(current) |-> CollisionStarted(Ascending(current)[k])]
    \o
    [k \in DOMAIN Ascending(Difference(previous, current)) |->
        CollisionFinished(Ascending(Difference(previous, current))[k])]

\* The two for loops of resolve.
Publish(current, previous) ==
    [k \in DOMAIN Ascending(Difference(current, previous)) |->
        CollisionStarted(Ascending(Difference(current, previous))[k])]
    \o
    [k \in DOMAIN Ascending(Difference(previous, current)) |->
        CollisionFinished(Ascending(Difference(previous, current))[k])]

\* Physics::resolve; the channel is bounded by letting the dispatcher drain
\* what was sent before.
PhysicsResolve ==
    /\ ppc = "updated"
    /\ events = <<>>
    /\ events' = events \o Publish(CurrentCollisions(colliders), collisions)
    /\ collisions' = CurrentCollisions(colliders)
    /\ ppc' = "idle"
    /\ UNCHANGED <<auxVars, entities, systems, lockVars, sysMutex, clientVars, tickVars,
                   collected, colliders>>

NextResolve ==
    \/ \E variant \in Variants, position \in Positions : Spawn(variant, position)
    \/ \E entity_id \in 0 .. MaxLen - 1 : Despawn(entity_id)
    \/ \E entity_id \in 0 .. MaxLen - 1, func \in SystemClosures :
          SystemModify(entity_id, func)
    \/ DispatchToPhysics
    \/ PhysicsUpdate
    \/ PhysicsResolve

SpecResolve == Init /\ [][NextResolve]_vars

\* How often a message occurs in a sequence of messages.
Count(message, messages) == Cardinality({k \in DOMAIN messages : messages[k] = message})

\* C20. Every resolve sends CollisionStarted exactly once for each pair of the
\* newly computed set that is not in the previous set, CollisionFinished
\* exactly once for each pair of the previous set that is not in the new one,
\* nothing else, and makes the new set the baseline, which nothing but a
\* resolve changes.
C20_DiffPublish ==
    [][/\ PhysicsResolve =>
             LET current == CurrentCollisions(colliders)
                 sent == SubSeq(events', Len(events) + 1, Len(events'))
             IN  /\ collisions' = current
                 /\ Len(sent) = Cardinality((current \ collisions) \cup (collisions \ current))
                 /\ \A c \in current \cup collisions :
                       /\ Count(CollisionStarted(c), sent)
                             = IF c \in current /\ c \notin collisions THEN 1 ELSE 0
                       /\ Count(CollisionFinished(c), sent)
                             = IF c \in collisions /\ c \notin current THEN 1 ELSE 0
       /\ ~PhysicsResolve => collisions' = collisions]_vars

\* A resolve has just found that the two entities whose collision had started
\* are apart: the one message in the channel is CollisionFinished for the
\* pair, and the baseline is empty again.
C20_FinishedSent ==
    /\ ppc = "idle"
    /\ events = <<CollisionFinished({0, 1})>>
    /\ collisions = {}
    /\ DOMAIN colliders = {0, 1}

\* ------------------------------------------- the broad phase of physics.rs

\* Where the movement systems of this part put an entity: apart, touching
\* (the distance of two origins equals the sum of two radii), overlapping.
BroadPositions == {0, 1, 2, 3}

\* Two asteroids are in the store and the dispatcher has handed their
\* EntityCreated messages to the physics handler.
InitBroad ==
    /\ \E position \in BroadPositions :
          entities = <<Some(NewEntity("Asteroid", 0)), Some(NewEntity("Asteroid", position))>>
    /\ systems = EmptyMap
    /\ events = <<>>
    /\ rwWriter = NoOwner
    /\ rwReaders = {}
    /\ sysMutex = NoOwner
    /\ pc = [t \in Clients |-> "idle"]
    /\ local = [t \in Clients |-> NoLocal]
    /\ ret = [t \in Clients |-> NoRet]
    /\ tpc = "idle"
    /\ scan = NoScan
    /\ actions = <<>>
    /\ done = <<>>
    /\ enqueued = <<>>
    /\ snapshot = <<>>
    /\ invoked = <<>>
    /\ ppc = "idle"
    /\ collected = EmptyMap
    /\ colliders = [entity_id \in {0, 1} |-> ColliderGroup(entities[entity_id + 1][1])]
    /\ collisions = {}
    /\ AuxIdle

NextBroad ==
    \/ \E entity_id \in 0 .. MaxLen - 1, position \in BroadPositions :
          SystemModify(entity_id, <<"position", position>>)
    \/ DispatchToPhysics
    \/ PhysicsUpdate
    \/ PhysicsResolve

SpecBroad == InitBroad /\ [][NextBroad]_vars

\* C21. A pair of distinct entities is rejected in the broad phase iff the
\* distance between their origins exceeds the sum of their bounding radii; a
\* pair whose distance equals the sum is not rejected and reaches the narrow
\* phase.
C21_BroadPhaseThreshold ==
    [][PhysicsResolve =>
          \A left, right \in DOMAIN colliders :
             left < right =>
                (~RadiusFilter(colliders[left], colliders[right]) <=>
                    Distance(colliders[left].position, colliders[right].position)
                       > colliders[left].radius + colliders[right].radius)]_vars

\* C22. In one physics tick every unordered pair of distinct entities is
\* considered once: the items resolve tests never belong to one entity,
\* however many colliders it has, no pair is tested in both orders, and no
\* recorded collision relates an entity to itself.
C22_PairsOnce ==
    /\ \A pair \in Candidates(colliders) :
          /\ pair[1].entity_id # pair[2].entity_id
          /\ \A other \in Candidates(colliders) :
                ~(/\ other[1].entity_id = pair[2].entity_id
                  /\ other[2].entity_id = pair[1].entity_id)
    /\ \A collision \in collisions \cup CurrentCollisions(colliders) :
          Cardinality(collision) = 2

\* A resolve has recorded the collision of a bullet, which has two colliders,
\* with another entity that overlaps it.
C22_BulletCollided ==
    /\ ppc = "idle"
    /\ \E collision \in collisions :
          \E entity_id \in collision :
             /\ entity_id \in DOMAIN colliders
             /\ Cardinality(colliders[entity_id].colliders) = 2
             /\ Cardinality({pair \in Candidates(colliders) :
                               {pair[1].entity_id, pair[2].entity_id} = collision}) >= 2

\* ----------------------------------- collision_test of game/physics.rs

\* Vec2 is a pair <<x, y>> of integers, in units of 0.2: (1.0, 0.0) is <<5, 0>>
\* and a radius of 0.6 is 3.  Vec2::distance compares through its square, the
\* same order on distances.
DistanceSquared(a, b) == (a[1] - b[1]) * (a[1] - b[1]) + (a[2] - b[2]) * (a[2] - b[2])

\* Collider::Point(PointCollider { center, radius })
Point(center, radius) == [kind |-> "Point", center |-> center, radius |-> radius]

\* Collider::Triangle(TriangleCollider { center, vertices, radius })
Triangle(center, vertices, radius) ==
    [kind |-> "Triangle", center |-> center, vertices |-> vertices, radius |-> radius]

\* A plausible slip: colliders that only touch are apart.
PointPointCollisionTestStrict(left, right) ==
    DistanceSquared(left.center, right.center)
        < (left.radius + right.radius) * (left.radius + right.radius)

\* point_point_collision_test: distance <= left.radius + right.radius
PointPointCollisionTest(left, right) ==
    DistanceSquared(left.center, right.center)
        <= (left.radius + right.radius) * (left.radius + right.radius)

\* fn determinant(point, v1, v2)
Determinant(point, v1, v2) ==
    (point[1] - v2[1]) * (v1[2] - v2[2]) - (point[2] - v2[2]) * (v1[1] - v2[1])

\* The three determinants of barycentric_triangle_point_test.
Determinants(point, triangle) ==
    <<Determinant(point, triangle[1], triangle[2]),
      Determinant(point, triangle[2], triangle[3]),
      Determinant(point, triangle[3], triangle[1])>>

\* A plausible slip: a zero determinant counts as a sign of its own.
BarycentricTrianglePointTestOpen(point, triangle) ==
    LET determinants == Determinants(point, triangle)
    IN  \/ \A k \in 1 .. 3 : determinants[k] < 0
        \/ \A k \in 1 .. 3 : determinants[k] > 0

\* barycentric_triangle_point_test
BarycentricTrianglePointTest(point, triangle) ==
    LET determinants == Determinants(point, triangle)
        negative == \E k \in 1 .. 3 : determinants[k] < 0
        positive == \E k \in 1 .. 3 : determinants[k] > 0
    IN  ~(negative /\ positive)

\* triangle_point_collision_test
TrianglePointCollisionTest(left, right) ==
    IF DistanceSquared(left.center, right.center)
          > (left.radius + right.radius) * (left.radius + right.radius)
    THEN FALSE
    ELSE BarycentricTrianglePointTest(right.center, left.vertices)

\* fn test(left, right) of triangle_triangle_collision_test
VertexTest(left, right) ==
    \E k \in 1 .. 3 : BarycentricTrianglePointTest(left.vertices[k], right.vertices)

\* A plausible slip: only the vertices of the receiver are looked at.
TriangleTriangleCollisionTestOneWay(left, right) ==
    IF DistanceSquared(left.center, right.center)
          > (left.radius + right.radius) * (left.radius + right.radius)
    THEN FALSE
    ELSE VertexTest(left, right)

\* triangle_triangle_collision_test
TriangleTriangleCollisionTest(left, right) ==
    IF DistanceSquared(left.center, right.center)
          > (left.radius + right.radius) * (left.radius + right.radius)
    THEN FALSE
    ELSE VertexTest(left, right) \/ VertexTest(right, left)

\* A plausible slip: a Point receiver compares the bounding circles whatever
\* the other collider is.
ColliderCollisionTestByCircles(self, collider) ==
    IF self.kind = "Point"
    THEN PointPointCollisionTest(self, collider)
    ELSE IF collider.kind = "Point"
         THEN TrianglePointCollisionTest(self, collider)
         ELSE TriangleTriangleCollisionTest(self, collider)

\* Collider::collision_test
ColliderCollisionTest(self, collider) ==
    IF self.kind = "Point"
    THEN IF collider.kind = "Point"
         THEN PointPointCollisionTest(self, collider)
         ELSE TrianglePointCollisionTest(collider, self)
    ELSE IF collider.kind = "Point"
         THEN TrianglePointCollisionTest(self, collider)
         ELSE TriangleTriangleCollisionTest(self, collider)

\* The point colliders under test, already transformed: at the origin, inside
\* the large triangle below, on one of its edges, outside it, and further off.
PointCenters == {<<0, 0>>, <<0, 1>>, <<2, 2>>, <<3, 3>>, <<5, 0>>, <<5, 5>>}
PointRadii == {1, 2, 3}

\* The triangle colliders under test, already transformed; as with every
\* collider of game/entities.rs no vertex is further from the center than the
\* radius.  A large one around the origin, a small one wholly inside it, one
\* that touches an edge of the large one with a vertex, and one far away.
LargeTriangle == Triangle(<<0, 0>>, <<<<0, 4>>, <<4, 0>>, <<-4, 0>>>>, 4)
SmallTriangle == Triangle(<<0, 2>>, <<<<0, 3>>, <<1, 1>>, <<-1, 1>>>>, 2)
TouchingTriangle == Triangle(<<2, 3>>, <<<<2, 2>>, <<4, 4>>, <<0, 4>>>>, 3)
FarTriangle == Triangle(<<11, 1>>, <<<<10, 0>>, <<12, 0>>, <<11, 2>>>>, 2)

BenchColliders ==
    {Point(center, radius) : center \in PointCenters, radius \in PointRadii}
        \cup {LargeTriangle, SmallTriangle, TouchingTriangle, FarTriangle}

\* Two colliders of two entities, as collect_collisions pairs them.
InitBench ==
    /\ entities = <<>>
    /\ systems = EmptyMap
    /\ events = <<>>
    /\ rwWriter = NoOwner
    /\ rwReaders = {}
    /\ sysMutex = NoOwner
    /\ pc = [t \in Clients |-> "idle"]
    /\ local = [t \in Clients |-> NoLocal]
    /\ ret = [t \in Clients |-> NoRet]
    /\ tpc = "idle"
    /\ scan = NoScan
    /\ actions = <<>>
    /\ done = <<>>
    /\ enqueued = <<>>
    /\ snapshot = <<>>
    /\ invoked = <<>>
    /\ ppc = "idle"
    /\ collected = EmptyMap
    /\ colliders = EmptyMap
    /\ collisions = {}
    /\ testLeft \in {Some(collider) : collider \in BenchColliders}
    /\ testRight \in {Some(collider) : collider \in BenchColliders}
    /\ verdict = None
    /\ absent = {}
    /\ WorkerIdle
    /\ DispatchIdle
    /\ LoopIdle
    /\ LateIdle

\* left_collider.collision_test(right_collider)
CollisionTestCall ==
    /\ verdict = None
    /\ verdict' = Some(ColliderCollisionTest(Unwrap(testLeft), Unwrap(testRight)))
    /\ UNCHANGED <<lateVars, storeVars, systems, lockVars, sysMutex, clientVars, tickVars,
                   physVars, testLeft, testRight, absent, workerVars, dispatchVars,
                   loopVars>>

NextBench == CollisionTestCall

SpecBench == InitBench /\ [][NextBench]_vars

\* The collision test of the two kinds has returned.
Tested(leftKind, rightKind) ==
    /\ verdict # None
    /\ Unwrap(testLeft).kind = leftKind
    /\ Unwrap(testRight).kind = rightKind

\* C23. Point-Point collision_test is true iff the distance of the centers is
\* at most the sum of the radii: centers (0,0) and (1,0) collide with radius
\* 0.6 each, do not with radius 0.4 each, and do when the radii add up to
\* exactly 1.
C23_PointPoint ==
    Tested("Point", "Point") =>
        LET l == Unwrap(testLeft)
            r == Unwrap(testRight)
            apart == DistanceSquared(l.center, r.center)
            reach == l.radius + r.radius
        IN  /\ Unwrap(verdict) <=> (apart <= reach * reach)
            /\ ({l.center, r.center} = {<<0, 0>>, <<5, 0>>} /\ l.radius = 3 /\ r.radius = 3)
                  => Unwrap(verdict)
            /\ ({l.center, r.center} = {<<0, 0>>, <<5, 0>>} /\ l.radius = 2 /\ r.radius = 2)
                  => ~Unwrap(verdict)
            /\ ({l.center, r.center} = {<<0, 0>>, <<5, 0>>} /\ l.radius + r.radius = 5)
                  => Unwrap(verdict)

\* The two points (0,0) and (1,0) whose radii add up to exactly their distance
\* were tested, and collide.
C23_TouchingPoints ==
    /\ Tested("Point", "Point")
    /\ Unwrap(testLeft) = Point(<<0, 0>>, 2)
    /\ Unwrap(testRight) = Point(<<5, 0>>, 3)
    /\ Unwrap(verdict)

\* Twice the signed area of the triangle (point, a, b).
SignedArea(point, a, b) ==
    (a[1] - point[1]) * (b[2] - point[2]) - (a[2] - point[2]) * (b[1] - point[1])

\* C24. Triangle-Point collision_test is true iff the point lies within the
\* triangle's radius and the three signed areas formed by the point with the
\* triangle's edges do not contain both a strictly negative and a strictly
\* positive value; a point exactly on an edge is inside, and the result is the
\* same whichever collider is the receiver.  (The code widens the triangle's
\* radius by the point's own; no vertex being further from the center than
\* the radius, both readings of "within" give the same result.)
C24_TrianglePoint ==
    (Tested("Triangle", "Point") \/ Tested("Point", "Triangle")) =>
        LET t == IF Unwrap(testLeft).kind = "Triangle"
                 THEN Unwrap(testLeft) ELSE Unwrap(testRight)
            p == IF Unwrap(testLeft).kind = "Point"
                 THEN Unwrap(testLeft) ELSE Unwrap(testRight)
            areas == {SignedArea(p.center, t.vertices[k], t.vertices[(k % 3) + 1]) :
                        k \in 1 .. 3}
            signs == ~((\E a \in areas : a < 0) /\ (\E a \in areas : a > 0))
            apart == DistanceSquared(t.center, p.center)
        IN  /\ Unwrap(verdict) <=>
                  (apart <= (t.radius + p.radius) * (t.radius + p.radius) /\ signs)
            /\ Unwrap(verdict) <=> (apart <= t.radius * t.radius /\ signs)
            /\ (t = LargeTriangle /\ p.center \in {<<2, 2>>, <<0, 0>>}) => Unwrap(verdict)
            /\ Unwrap(verdict)
                  = ColliderCollisionTest(Unwrap(testRight), Unwrap(testLeft))

\* A point on the edge from (0,4) to (4,0) of the large triangle was the
\* receiver of a test against that triangle, and collides.
C24_PointOnEdge ==
    /\ Tested("Point", "Triangle")
    /\ Unwrap(testLeft).center = <<2, 2>>
    /\ Unwrap(testRight) = LargeTriangle
    /\ Unwrap(verdict)

\* C25. Triangle-Triangle collision_test is true iff at least one vertex of
\* either triangle lies inside the other (edges included); in particular it
\* is true when one triangle is wholly contained in the other.
C25_TriangleTriangle ==
    Tested("Triangle", "Triangle") =>
        LET l == Unwrap(testLeft)
            r == Unwrap(testRight)
            Inside(point, t) ==
                LET areas == {SignedArea(point, t.vertices[k], t.vertices[(k % 3) + 1]) :
                                k \in 1 .. 3}
                IN  ~((\E a \in areas : a < 0) /\ (\E a \in areas : a > 0))
        IN  /\ Unwrap(verdict) <=>
                  \/ \E k \in 1 .. 3 : Inside(l.vertices[k], r)
                  \/ \E k \in 1 .. 3 : Inside(r.vertices[k], l)
            /\ ({l, r} = {LargeTriangle, SmallTriangle}) => Unwrap(verdict)

\* The large triangle was the receiver of a test against the small one that
\* lies wholly inside it (no vertex of the large one is inside the small one),
\* and collides.
C25_Contained ==
    /\ Tested("Triangle", "Triangle")
    /\ Unwrap(testLeft) = LargeTriangle
    /\ Unwrap(testRight) = SmallTriangle
    /\ ~VertexTest(LargeTriangle, SmallTriangle)
    /\ Unwrap(verdict)

\* C26. When an entity has been destroyed between the collect and the publish
\* phase of a physics tick, publishing onto its id is a no-op: the slot stays
\* empty, nothing is created, sent or changed for it, and every entity that is
\* still present gets its own results as usual.
C26_AbsentTargetNoOp ==
    [][PhysicsStore =>
          /\ Len(entities') = Len(entities)
          /\ events' = events
          /\ \A entity_id \in Ids(entities) :
                IF ~Occupied(entities, entity_id)
                THEN ~Occupied(entities', entity_id)
                ELSE entities'[entity_id + 1][1] =
                        IF entity_id \in DOMAIN collected
                              /\ HasCollider(entities[entity_id + 1][1])
                        THEN [entities[entity_id + 1][1] EXCEPT
                                !.collisions = @ \cup collected[entity_id]]
                        ELSE entities[entity_id + 1][1]]_vars

\* A physics tick has just published the collision it had collected between
\* entities 0 and 1 after entity 0 was destroyed: slot 0 is empty, and entity
\* 1 holds the collision with 0.
C26_PublishedOntoAbsent ==
    /\ ppc = "idle"
    /\ absent = {0}
    /\ ~Occupied(entities, 0)
    /\ Occupied(entities, 1)
    /\ 0 \in Stored(entities, 1)

\* ------------------------------------------ worker threads and their owners

\* thread::Builder::spawn in Worker::spawn of worker.rs: the flag starts true
\* and the new thread is at the head of `while alive.load(..)`.
WorkerSpawn(w) ==
    /\ wpc[w] = "none"
    /\ dpc[w] = "none"
    /\ alive' = [alive EXCEPT ![w] = TRUE]
    /\ wpc' = [wpc EXCEPT ![w] = "check"]
    /\ dpc' = [dpc EXCEPT ![w] = "holding"]
    /\ UNCHANGED <<lateVars, storeVars, systems, lockVars, sysMutex, clientVars, tickVars,
                   physVars, benchVars, absent, dispatchVars, loopVars,
                   token, step, effects, seen>>

\* The head of a worker's loop: another tick while the condition holds, else
\* the worker function returns.
LoopCheck(w, continue) ==
    /\ wpc[w] = "check"
    /\ wpc' = [wpc EXCEPT ![w] = IF continue THEN "tick" ELSE "returned"]
    /\ step' = [step EXCEPT ![w] = 0]
    /\ UNCHANGED <<lateVars, storeVars, systems, lockVars, sysMutex, clientVars, tickVars,
                   physVars, benchVars, absent, dispatchVars, loopVars,
                   alive, token, effects, dpc, seen>>

\* while alive.load(Ordering::Relaxed)
AliveCheck(w) == LoopCheck(w, alive[w])

\* One write of the tick a worker thread is in; after the last one the thread
\* is back at the head of the loop.  The writes are counted up to those of
\* MaxTicks ticks.
WorkerTick(w) ==
    /\ wpc[w] = "tick"
    /\ effects' = [effects EXCEPT ![w] = IF @ < MaxTicks * TickSteps THEN @ + 1 ELSE @]
    /\ step' = [step EXCEPT ![w] = @ + 1]
    /\ wpc' = [wpc EXCEPT ![w] = IF step[w] + 1 = TickSteps THEN "check" ELSE "tick"]
    /\ UNCHANGED <<lateVars, storeVars, systems, lockVars, sysMutex, clientVars, tickVars,
                   physVars, benchVars, absent, dispatchVars, loopVars,
                   alive, token, dpc, seen>>

\* Drop for Worker of worker.rs, first statement: alive.store(false)
WorkerDrop(w) ==
    /\ dpc[w] = "holding"
    /\ alive' = [alive EXCEPT ![w] = FALSE]
    /\ dpc' = [dpc EXCEPT ![w] = "joining"]
    /\ UNCHANGED <<lateVars, storeVars, systems, lockVars, sysMutex, clientVars, tickVars,
                   physVars, benchVars, absent, dispatchVars, loopVars,
                   token, wpc, step, effects, seen>>

\* A plausible slip: the thread is detached instead of joined.
JoinedDetached(w) == TRUE

\* JoinHandle::join returns once the thread's function has returned, or has
\* panicked.
Joined(w) == wpc[w] \in {"returned", "panicked"}

\* Drop, second statement: handle.join(); the drop returns and the owner reads
\* what the worker wrote.
WorkerJoin(w) ==
    /\ dpc[w] = "joining"
    /\ Joined(w)
    /\ dpc' = [dpc EXCEPT ![w] = "dropped"]
    /\ seen' = [seen EXCEPT ![w] = Some(effects[w])]
    /\ UNCHANGED <<lateVars, storeVars, systems, lockVars, sysMutex, clientVars, tickVars,
                   physVars, benchVars, absent, dispatchVars, loopVars,
                   alive, token, wpc, step, effects>>

WorkerThread(w) == AliveCheck(w) \/ WorkerTick(w)

NextWorker ==
    \/ \E w \in Threads : WorkerSpawn(w)
    \/ \E w \in Threads : AliveCheck(w)
    \/ \E w \in Threads : WorkerTick(w)
    \/ \E w \in Threads : WorkerDrop(w)
    \/ \E w \in Threads : WorkerJoin(w)

\* The scheduler lets a runnable thread run: a worker thread goes on while it
\* can, and so does an owner blocked in join once the thread is finished.
SpecWorker ==
    /\ Init
    /\ [][NextWorker]_vars
    /\ \A w \in Threads : WF_vars(WorkerThread(w)) /\ WF_vars(WorkerJoin(w))

IsCancelled(flag) == flag

\* AtomicBool::compare_exchange(current, new, ..): the value stored afterwards.
CompareExchange(flag, current, new) == IF flag = current THEN new ELSE flag

\* CancellationToken::cancel: token.compare_exchange(true, false, ..)
Cancel(flag) == CompareExchange(flag, TRUE, FALSE)

\* Workers::spawn: Worker::spawn makes a default token, which is false, and
\* starts the thread, which is at the head of `while !token.is_cancelled()`;
\* the caller holds the returned handle.
WorkersSpawn(w) ==
    /\ wpc[w] = "none"
    /\ dpc[w] = "none"
    /\ token' = [token EXCEPT ![w] = FALSE]
    /\ wpc' = [wpc EXCEPT ![w] = "check"]
    /\ dpc' = [dpc EXCEPT ![w] = "holding"]
    /\ UNCHANGED <<lateVars, storeVars, systems, lockVars, sysMutex, clientVars, tickVars,
                   physVars, benchVars, absent, dispatchVars, loopVars,
                   alive, step, effects, seen>>

\* while !token.is_cancelled()
TokenCheck(w) == LoopCheck(w, ~IsCancelled(token[w]))

\* A tick panics (an unwrap on a poisoned lock, a handler that panics): the
\* thread ends without returning to the head of the loop.
WorkerPanic(w) ==
    /\ wpc[w] = "tick"
    /\ wpc' = [wpc EXCEPT ![w] = "panicked"]
    /\ UNCHANGED <<lateVars, storeVars, systems, lockVars, sysMutex, clientVars, tickVars,
                   physVars, benchVars, absent, dispatchVars, loopVars,
                   alive, token, step, effects, dpc, seen>>

\* Dropping the handle: workers.remove(&name) drops the Worker, whose drop
\* starts with self.token.cancel().
HandleDrop(w) ==
    /\ dpc[w] = "holding"
    /\ token' = [token EXCEPT ![w] = Cancel(token[w])]
    /\ dpc' = [dpc EXCEPT ![w] = "joining"]
    /\ UNCHANGED <<lateVars, storeVars, systems, lockVars, sysMutex, clientVars, tickVars,
                   physVars, benchVars, absent, dispatchVars, loopVars,
                   alive, wpc, step, effects, seen>>

TokenThread(w) == TokenCheck(w) \/ WorkerTick(w)

NextWorkers ==
    \/ \E w \in Threads : WorkersSpawn(w)
    \/ \E w \in Threads : TokenCheck(w)
    \/ \E w \in Threads : WorkerTick(w)
    \/ \E w \in Threads : WorkerPanic(w)
    \/ \E w \in Threads : HandleDrop(w)
    \/ \E w \in Threads : WorkerJoin(w)

SpecWorkers ==
    /\ Init
    /\ [][NextWorkers]_vars
    /\ \A w \in Threads : WF_vars(TokenThread(w)) /\ WF_vars(WorkerJoin(w))

\* C27. After the handle returned by Workers::spawn is dropped the worker's
\* token reports is_cancelled() = true, so the loop `while !token.is_cancelled()`
\* exits after its current tick, the thread is joined and the drop returns.
C27_HandleDropCancels ==
    /\ [](\A w \in Threads : dpc[w] \in {"joining", "dropped"} => IsCancelled(token[w]))
    /\ \A w \in Threads : (dpc[w] = "joining") ~> (dpc[w] = "dropped")

\* --------------------------------------------------- dispatch.rs: Dispatcher

\* Event::WindowResized(..); the payload tells the messages apart.
WindowResized(size) == <<"WindowResized", size>>

\* The closures handed to add_handler.
HandlerIds == {"h1", "h2"}

\* Sender::send: tx.send(message)
SenderSend ==
    /\ sends < MaxSent
    /\ events' = Append(events, WindowResized(sends + 1))
    /\ sends' = sends + 1
    /\ UNCHANGED <<lateVars, entities, systems, lockVars, sysMutex, clientVars, tickVars,
                   physVars, benchVars, absent, workerVars, loopVars,
                   handlers, drained, delivered, xpc>>

\* Dispatcher::add_handler: handlers.push(handler), under the handlers mutex,
\* which a dispatch holds while it delivers.
AddHandler(handler) ==
    /\ \A k \in DOMAIN handlers : handlers[k] # handler
    /\ handlers' = Append(handlers, handler)
    /\ UNCHANGED <<lateVars, storeVars, systems, lockVars, sysMutex, clientVars, tickVars,
                   physVars, benchVars, absent, workerVars, loopVars,
                   drained, delivered, sends, xpc>>

\* Dispatcher::dispatch, first half: rx.lock(), rx.try_iter().collect()
DispatchDrain ==
    /\ xpc = "idle"
    /\ drained' = events
    /\ events' = <<>>
    /\ xpc' = "drained"
    /\ UNCHANGED <<lateVars, entities, systems, lockVars, sysMutex, clientVars, tickVars,
                   physVars, benchVars, absent, workerVars, loopVars,
                   handlers, delivered, sends>>

\* for Handler(handler) in handlers.iter() { handler(&message) }
CallHandlers(list, message) == [k \in DOMAIN list |-> <<list[k], message>>]

\* A plausible slip: the two loops are nested the other way round.
RECURSIVE DeliveriesByHandler(_, _)
DeliveriesByHandler(messages, list) ==
    IF list = <<>> THEN <<>>
    ELSE [k \in DOMAIN messages |-> <<Head(list), messages[k]>>]
            \o DeliveriesByHandler(messages, Tail(list))

\* for message in messages { for Handler(handler) in handlers.iter() { .. } }
RECURSIVE Deliveries(_, _)
Deliveries(messages, list) ==
    IF messages = <<>> THEN <<>>
    ELSE CallHandlers(list, Head(messages)) \o Deliveries(Tail(messages), list)

\* Dispatcher::dispatch, second half: handlers.lock(), the two loops, and the
\* release of both locks at the end of the function.
DispatchDeliver ==
    /\ xpc = "drained"
    /\ delivered' = delivered \o Deliveries(drained, handlers)
    /\ drained' = <<>>
    /\ xpc' = "idle"
    /\ UNCHANGED <<lateVars, storeVars, systems, lockVars, sysMutex, clientVars, tickVars,
                   physVars, benchVars, absent, workerVars, loopVars,
                   handlers, sends>>

NextDispatch ==
    \/ SenderSend
    \/ \E handler \in HandlerIds : AddHandler(handler)
    \/ DispatchDrain
    \/ DispatchDeliver

SpecDispatch == Init /\ [][NextDispatch]_vars

\* C29. Every message sent before a dispatch pass is taken by that pass and
\* delivered during it to every registered handler exactly once, the messages
\* in the order they were sent and, for each message, the handlers in
\* registration order; no later pass delivers a message again.
C29_Dispatch ==
    /\ [](/\ \A i, j \in DOMAIN events : i < j => events[i][2] < events[j][2]
          /\ \A i, j \in DOMAIN delivered : i < j =>
                /\ delivered[i] # delivered[j]
                /\ delivered[i][2][2] <= delivered[j][2][2])
    /\ [][/\ DispatchDrain => (drained' = events /\ events' = <<>>)
          /\ DispatchDeliver =>
                LET calls == SubSeq(delivered', Len(delivered) + 1, Len(delivered'))
                    count == Len(handlers)
                IN  /\ Len(calls) = Len(drained) * count
                    /\ \A i \in DOMAIN drained, j \in DOMAIN handlers :
                          calls[(i - 1) * count + j] = <<handlers[j], drained[i]>>
          /\ ~DispatchDeliver => delivered' = delivered]_vars

\* Two messages have been delivered to two handlers, of which the second by
\* name was registered first: message by message, the handlers in registration
\* order.
C29_TwoByTwo ==
    /\ xpc = "idle"
    /\ handlers = <<"h2", "h1">>
    /\ delivered = <<<<"h2", WindowResized(1)>>, <<"h1", WindowResized(1)>>,
                     <<"h2", WindowResized(2)>>, <<"h1", WindowResized(2)>>>>

\* ------------------------------------------------ game/loop.rs: Loop::add_logic

\* Loop::add_logic: logics.insert(name.clone(), Box::new(logic)); the returned
\* handle owns a closure over the name.  The logic of the n-th call is n.
AddLogic(name) ==
    /\ added < MaxCalls
    /\ added' = added + 1
    /\ logics' = MapInsert(logics, name, added + 1)
    /\ handles' = handles \cup {[name |-> name, call |-> added + 1]}
    /\ UNCHANGED <<lateVars, storeVars, systems, lockVars, sysMutex, clientVars, tickVars,
                   physVars, benchVars, absent, workerVars, dispatchVars>>

\* Drop for Handle runs the closure once: logics.lock().unwrap(); logics.remove(&name)
DropHandle(handle) ==
    /\ handle \in handles
    /\ logics' = MapRemove(logics, handle.name)
    /\ handles' = handles \ {handle}
    /\ UNCHANGED <<lateVars, storeVars, systems, lockVars, sysMutex, clientVars, tickVars,
                   physVars, benchVars, absent, workerVars, dispatchVars, added>>

NextLoop ==
    \/ \E name \in Names : AddLogic(name)
    \/ \E handle \in handles : DropHandle(handle)

SpecLoop == Init /\ [][NextLoop]_vars

\* C30. A handle removes, when dropped, exactly the logic that its own call
\* registered: every logic registered by a different call, a later call with
\* the same name included, is still registered afterwards.
C30_HandleRemovesOwn ==
    [][\A handle \in handles :
          DropHandle(handle) =>
             \A name \in DOMAIN logics :
                logics[name] # handle.call =>
                   (name \in DOMAIN logics' /\ logics'[name] = logics[name])]_vars

\* ------------------------------------------------ input.rs: Input::add_scheme

\* Key and the names of commands, two of each.
Keys == {"KbdSpace", "KbdEnter"}
Commands == {"fire", "turn"}

\* Scheme::default().add(command, inputs)...: the commands of a scheme with the
\* set of keys of each (BTreeMap<String, BTreeSet<Key>>).
Scheme(fire, turn) == [mapping |-> [command \in Commands |-> IF command = "fire" THEN fire ELSE turn]]

\* The schemes the callers register.
Schemes ==
    { Scheme({"KbdSpace"}, {}),
      Scheme({"KbdSpace", "KbdEnter"}, {}),
      Scheme({"KbdSpace"}, {"KbdEnter"}),
      [mapping |-> [command \in {"turn"} |-> {"KbdSpace", "KbdEnter"}]] }

\* scheme.mapping.iter().flat_map(...): the (key, command) items of a scheme.
SchemeItems(scheme) ==
    UNION {{<<key, command>> : key \in scheme.mapping[command]} :
                command \in DOMAIN scheme.mapping}

\* mapping.entry(key).or_default()
EntryOrDefault(map, key) == IF key \in DOMAIN map THEN map[key] ELSE EmptyMap

\* .entry(command).and_modify(|ref_count| *ref_count += 1).or_insert(1)
AddReference(map, key, command) ==
    LET inner == EntryOrDefault(map, key)
        count == IF command \in DOMAIN inner THEN inner[command] + 1 ELSE 1
    IN  MapInsert(map, key, MapInsert(inner, command, count))

\* The body of the closure of the handle with remove at every decrement.
RemoveReferenceAlways(map, key, command) ==
    MapInsert(map, key, MapRemove(EntryOrDefault(map, key), command))

\* if let Some(ref_count) = mapping.get_mut(command) { *ref_count -= 1;
\*     if *ref_count == 0 { mapping.remove(command); } }
RemoveReference(map, key, command) ==
    LET inner == EntryOrDefault(map, key)
    IN  IF command \in DOMAIN inner
        THEN IF inner[command] - 1 = 0
             THEN MapInsert(map, key, MapRemove(inner, command))
             ELSE MapInsert(map, key, MapInsert(inner, command, inner[command] - 1))
        ELSE MapInsert(map, key, inner)

\* for_each over the items of a scheme; the items are distinct, so the order
\* of the iteration does not show in the result.
RECURSIVE AddReferences(_, _)
AddReferences(map, items) ==
    IF items = {} THEN map
    ELSE LET item == CHOOSE i \in items : TRUE
         IN  AddReferences(AddReference(map, item[1], item[2]), items \ {item})

RECURSIVE RemoveReferences(_, _)
RemoveReferences(map, items) ==
    IF items = {} THEN map
    ELSE LET item == CHOOSE i \in items : TRUE
         IN  RemoveReferences(RemoveReference(map, item[1], item[2]), items \ {item})

\* Input::add_scheme, under the schemes mutex and the mapping write lock.
AddScheme(scheme) ==
    /\ scheme_counter < MaxCalls
    /\ scheme_counter' = scheme_counter + 1
    /\ mapping' = AddReferences(mapping, SchemeItems(scheme))
    /\ schemes' = MapInsert(schemes, scheme_counter, scheme)
    /\ schemeHandles' = schemeHandles \cup {scheme_counter}
    /\ UNCHANGED <<earlyVars, playersVars, notified, replaced, orderVars>>

\* The closure of the handle add_scheme returned, run when the handle drops.
DropScheme(scheme_id) ==
    /\ scheme_id \in schemeHandles
    /\ schemeHandles' = schemeHandles \ {scheme_id}
    /\ IF scheme_id \in DOMAIN schemes
       THEN /\ schemes' = MapRemove(schemes, scheme_id)
            /\ mapping' = RemoveReferences(mapping, SchemeItems(schemes[scheme_id]))
       ELSE UNCHANGED <<schemes, mapping>>
    /\ UNCHANGED <<earlyVars, playersVars, notified, replaced, orderVars, scheme_counter>>

\* Input::dispatch: the commands invoked for a key.
DispatchCommands(map, key) == IF key \in DOMAIN map THEN DOMAIN map[key] ELSE {}

NextInput ==
    \/ \E scheme \in Schemes : AddScheme(scheme)
    \/ \E scheme_id \in 0 .. MaxCalls : DropScheme(scheme_id)

SpecInput == Init /\ [][NextInput]_vars

\* The registered schemes that map a key to a command.
Providers(key, command) ==
    {scheme_id \in DOMAIN schemes : <<key, command>> \in SchemeItems(schemes[scheme_id])}

\* C31. After any sequence of add_scheme calls and drops of their handles, a
\* key is mapped to a command iff at least one registered scheme maps that key
\* to that command, the stored count of (key, command) is the number of such
\* schemes, and no count of zero is stored; so the drop of one scheme's handle
\* leaves the mappings another registered scheme provides.
C31_SchemeCounts ==
    \A key \in Keys, command \in Commands :
        LET count == Cardinality(Providers(key, command))
        IN  /\ command \in DispatchCommands(mapping, key) <=> count > 0
            /\ count > 0 => mapping[key][command] = count
            /\ command \in DispatchCommands(mapping, key) => mapping[key][command] # 0

\* A handle has been dropped while two other schemes share a mapping.
C31_DroppedOneOfThree ==
    /\ scheme_counter = 3
    /\ Cardinality(DOMAIN schemes) = 2
    /\ \E key \in Keys, command \in Commands : Cardinality(Providers(key, command)) = 2

\* ---------- game/players.rs, game/logics.rs, game/systems.rs: the players

MaxPlayers == 1

MAX_ASTEROIDS_COUNT == 64

\* The name of the game loop thread (workers.spawn("GameLoop", ..)).
GameLoop == "GameLoop"

\* What the game loop, the tick with the systems of the game and the events
\* thread leave alone.
playersRestVars == <<systems, rwReaders, clientVars, done, enqueued, snapshot, invoked,
                     physVars, benchVars, absent, workerVars, dispatchVars, loopVars,
                     inputVars, notified, replaced, orderVars>>

\* Player::default(). respawn_timer is kept by its sign: it starts at 0.0 and
\* nothing but `respawn_timer -= elapsed` writes it, so it is never positive.
DefaultPlayer == [spacecraft_id |-> None, respawn_timer |-> 0]

\* enum CameraTarget { None, Entity(EntityId), Player(PlayerId) }
CameraTargetNone == <<"None">>
CameraTargetPlayer(player_id) == <<"Player", player_id>>

\* The entities the logics create, with their default transform.
GameEntity(variant, player, target) ==
    [variant |-> variant, position |-> 0, follow |-> variant = "Camera",
     collisions |-> {}, owner |-> player, target |-> target]

\* entities::Spacecraft { spacecraft: SpacecraftComponent { owner: Some(player_id), .. }, .. }
SpacecraftOf(player_id) == GameEntity("Spacecraft", Some(player_id), CameraTargetNone)
AsteroidEntity == GameEntity("Asteroid", None, CameraTargetNone)
CameraOn(player_id) == GameEntity("Camera", None, CameraTargetPlayer(player_id))

\* The store and the channel have room for n more creates or destroys. It is
\* asked only where a thread starts a step, never inside one.
HasRoom(n) ==
    /\ Cardinality(Live(entities)) + n <= MaxLen
    /\ Len(events) + n <= MaxLen

\* EntitiesWriteLock::create: the store after it, the id and the notification.
CreateIn(store, entity) ==
    LET slot == FirstEmptySlot(store)
    IN  [store |-> Insert(store, slot[1], slot[2], entity),
         entity_id |-> slot[1],
         sent |-> <<EntityCreated(slot[1])>>]

\* Players::new_player, under the players write lock.
NewPlayer ==
    /\ player_counter < MaxPlayers
    /\ playersWriter = NoOwner
    /\ players' = MapInsert(players, player_counter, DefaultPlayer)
    /\ player_counter' = player_counter + 1
    /\ UNCHANGED <<playersRestVars, storeVars, rwWriter, sysMutex, tpc, scan, actions,
                   playersWriter, gpc, piter, epc, inbox, resetting>>

\* init_game_logic: state.ecs.write().create(camera) with the camera on a player.
CreateCamera(player_id) ==
    /\ gpc = "idle"
    /\ player_id \in DOMAIN players
    /\ WriteLockFree
    /\ HasRoom(1)
    /\ LET r == CreateIn(entities, CameraOn(player_id))
       IN  /\ entities' = r.store
           /\ events' = events \o r.sent
    /\ UNCHANGED <<playersRestVars, rwWriter, sysMutex, tpc, scan, actions, playersVars>>

\* The players asteroids_respawn_game_logic reads the position of.
SpacecraftPlayers(store, map) ==
    {player_id \in DOMAIN map :
        /\ IsSome(map[player_id].spacecraft_id)
        /\ Occupied(store, Unwrap(map[player_id].spacecraft_id))}

\* asteroids_respawn_game_logic once the threshold has passed: it takes the
\* write lock of the store, counts the asteroids, reads the players under their
\* read lock and creates an asteroid within reach of a spacecraft.
AsteroidsRespawn ==
    /\ gpc = "idle"
    /\ WriteLockFree
    /\ playersWriter = NoOwner
    /\ HasRoom(1)
    /\ Cardinality({i \in Live(entities) : entities[i + 1][1].variant = "Asteroid"})
            < MAX_ASTEROIDS_COUNT
    /\ LET r == CreateIn(entities, AsteroidEntity)
       IN  /\ entities' = r.store
           /\ events' = events \o r.sent
    /\ UNCHANGED <<playersRestVars, rwWriter, sysMutex, tpc, scan, actions, playersVars>>

\* Players::iter_mut: the write guard with the first and the last key.
IterMut(map) ==
    [player_id |-> IF DOMAIN map # {} THEN Min(DOMAIN map) ELSE 0,
     max_player_id |-> IF DOMAIN map # {} THEN Max(DOMAIN map) ELSE 0]

\* PlayerIterMut::next under .filter(|(_, player)| player.spacecraft_id.is_none())
WithoutSpacecraft(map, it) ==
    {player_id \in DOMAIN map :
        /\ it.player_id <= player_id
        /\ player_id <= it.max_player_id
        /\ map[player_id].spacecraft_id = None}

\* players_respawn_game_logic: state.players.iter_mut() takes the players
\* write lock, which the iterator holds until for_each has finished.
RespawnBegin ==
    /\ gpc = "idle"
    /\ playersWriter = NoOwner
    /\ HasRoom(Cardinality(WithoutSpacecraft(players, IterMut(players))))
    /\ playersWriter' = GameLoop
    /\ gpc' = "respawn"
    /\ piter' = Some(IterMut(players))
    /\ UNCHANGED <<playersRestVars, storeVars, rwWriter, sysMutex, tpc, scan, actions,
                   players, player_counter, epc, inbox, resetting>>

\* One turn of for_each: the timer is not positive, so the spacecraft is
\* created under the write lock of the store (state.ecs.write().create(..)) and
\* its id is stored in the player. After the last turn the iterator is dropped
\* and with it the players write lock.
RespawnNext ==
    /\ gpc = "respawn"
    /\ LET it == Unwrap(piter)
           todo == WithoutSpacecraft(players, it)
       IN  IF todo # {}
           THEN LET player_id == Min(todo)
                    r == CreateIn(entities, SpacecraftOf(player_id))
                IN  /\ ~(players[player_id].respawn_timer > 0)
                    /\ WriteLockFree
                    /\ entities' = r.store
                    /\ events' = events \o r.sent
                    /\ players' = [players EXCEPT ![player_id].spacecraft_id = Some(r.entity_id)]
                    /\ piter' = Some([it EXCEPT !.player_id = player_id + 1])
                    /\ UNCHANGED <<playersWriter, gpc>>
           ELSE /\ playersWriter' = NoOwner
                /\ gpc' = "idle"
                /\ piter' = None
                /\ UNCHANGED <<storeVars, players>>
    /\ UNCHANGED <<playersRestVars, rwWriter, sysMutex, tpc, scan, actions,
                   player_counter, epc, inbox, resetting>>

\* game_ecs.rs worker_func: the write lock of the store and the systems mutex.
GameTickBegin ==
    /\ tpc = "idle"
    /\ WriteLockFree
    /\ sysMutex = NoOwner
    /\ Len(events) + Cardinality(Live(entities)) <= MaxLen
    /\ rwWriter' = Worker
    /\ sysMutex' = Worker
    /\ tpc' = "scan"
    /\ scan' = [NoScan EXCEPT !.cursor = 0]
    /\ actions' = <<>>
    /\ UNCHANGED <<playersRestVars, storeVars, playersVars>>

\* camera_sync_system: reads the players for a following camera on a player.
CameraSyncReadsPlayers(entity) ==
    entity.variant = "Camera" /\ entity.follow /\ entity.target[1] = "Player"

CameraSyncSystem(store, map, entity_id, entity) ==
    IF CameraSyncReadsPlayers(entity)
            /\ entity.target[2] \in DOMAIN map
            /\ IsSome(map[entity.target[2]].spacecraft_id)
            /\ Occupied(store, Unwrap(map[entity.target[2]].spacecraft_id))
    THEN <<Modify(entity_id, <<"position",
                   Unwrap(GetEntity(store, Unwrap(map[entity.target[2]].spacecraft_id))).position>>)>>
    ELSE <<>>

\* entity_despawn_system: reads the players for what is no camera or spacecraft.
DespawnReadsPlayers(entity) == entity.variant \notin {"Camera", "Spacecraft"}

\* The entities of this part stay where they were created, within
\* MAX_DISTANCE of every spacecraft: any_near is whether there is a spacecraft.
EntityDespawnSystem(store, map, entity_id, entity) ==
    IF DespawnReadsPlayers(entity) /\ SpacecraftPlayers(store, map) = {}
    THEN <<Destroy(entity_id)>>
    ELSE <<>>

\* The two systems on the next entity of the scan. A system that reads the
\* players takes their read lock (visit_player, iter) while the tick holds the
\* write lock of the store.
GameTickInvoke ==
    /\ tpc = "scan"
    /\ Ahead(entities, scan.cursor) # {}
    /\ LET entity_id == Min(Ahead(entities, scan.cursor))
           entity == Unwrap(GetEntity(entities, entity_id))
       IN  /\ (CameraSyncReadsPlayers(entity) \/ DespawnReadsPlayers(entity))
                    => playersWriter = NoOwner
           /\ scan' = [scan EXCEPT !.cursor = entity_id + 1, !.entity_id = entity_id]
           /\ actions' = actions \o CameraSyncSystem(entities, players, entity_id, entity)
                                 \o EntityDespawnSystem(entities, players, entity_id, entity)
    /\ UNCHANGED <<playersRestVars, storeVars, rwWriter, sysMutex, tpc, playersVars>>

\* for action in actions { match action { .. } }
RECURSIVE ApplyActions(_, _)
ApplyActions(store, queue) ==
    IF queue = <<>> THEN [store |-> store, sent |-> <<>>]
    ELSE LET r == ApplyAction(store, Head(queue))
             rest == ApplyActions(r.store, Tail(queue))
         IN  [store |-> rest.store, sent |-> r.sent \o rest.sent]

\* The scan is over: the deferred actions are applied and both guards dropped.
GameTickApply ==
    /\ tpc = "scan"
    /\ Ahead(entities, scan.cursor) = {}
    /\ LET r == ApplyActions(entities, actions)
       IN  /\ entities' = r.store
           /\ events' = events \o r.sent
    /\ actions' = <<>>
    /\ scan' = NoScan
    /\ rwWriter' = NoOwner
    /\ sysMutex' = NoOwner
    /\ tpc' = "idle"
    /\ UNCHANGED <<playersRestVars, playersVars>>

\* events.rs worker_func: rx.try_iter().collect()
EventsDrain ==
    /\ epc = "idle"
    /\ events # <<>>
    /\ inbox' = events
    /\ events' = <<>>
    /\ epc' = "handle"
    /\ UNCHANGED <<playersRestVars, entities, rwWriter, sysMutex, tpc, scan, actions,
                   players, player_counter, playersWriter, gpc, piter, resetting>>

\* The position of the events thread once a message has been handled.
AfterMessage(rest) == IF rest = <<>> THEN "idle" ELSE "handle"

\* The read pass of handle_entity_destroy: iter().filter(..).map(..).next()
FirstOwner(map, entity_id) ==
    LET owners == {player_id \in DOMAIN map : map[player_id].spacecraft_id = Some(entity_id)}
    IN  IF owners # {} THEN Some(Min(owners)) ELSE None

\* The handler of Players for the next message: EntityDestroyed reads the
\* players under their read lock, any other event is ignored.
HandleMessage ==
    /\ epc = "handle"
    /\ LET message == Head(inbox)
       IN  IF message[1] = "EntityDestroyed"
           THEN /\ playersWriter = NoOwner
                /\ resetting' = FirstOwner(players, message[2])
                /\ IF IsSome(resetting')
                   THEN UNCHANGED inbox /\ epc' = "reset"
                   ELSE inbox' = Tail(inbox) /\ epc' = AfterMessage(Tail(inbox))
           ELSE /\ inbox' = Tail(inbox)
                /\ epc' = AfterMessage(Tail(inbox))
                /\ UNCHANGED resetting
    /\ UNCHANGED <<playersRestVars, storeVars, rwWriter, sysMutex, tpc, scan, actions,
                   players, player_counter, playersWriter, gpc, piter>>

\* The write pass of handle_entity_destroy: player.spacecraft_id = None
HandleReset ==
    /\ epc = "reset"
    /\ playersWriter = NoOwner
    /\ players' = IF Unwrap(resetting) \in DOMAIN players
                  THEN [players EXCEPT ![Unwrap(resetting)].spacecraft_id = None]
                  ELSE players
    /\ resetting' = None
    /\ inbox' = Tail(inbox)
    /\ epc' = AfterMessage(Tail(inbox))
    /\ UNCHANGED <<playersRestVars, storeVars, rwWriter, sysMutex, tpc, scan, actions,
                   player_counter, playersWriter, gpc, piter>>

\* The ECS thread inside a tick, and the game loop inside the respawn logic.
GameTickStep == GameTickInvoke \/ GameTickApply

NextPlayers ==
    \/ NewPlayer
    \/ \E player_id \in 0 .. MaxPlayers : CreateCamera(player_id)
    \/ AsteroidsRespawn
    \/ RespawnBegin
    \/ RespawnNext
    \/ GameTickBegin
    \/ GameTickInvoke
    \/ GameTickApply
    \/ EventsDrain
    \/ HandleMessage
    \/ HandleReset

SpecPlayers == Init /\ [][NextPlayers]_vars

\* C32. The ECS tick thread and the game-loop thread never deadlock: in every
\* interleaving of a tick (which holds the write lock of the store while
\* camera_sync_system and entity_despawn_system read the players) with
\* players_respawn_game_logic (which holds the players write lock while it
\* takes the write lock of the store) and asteroids_respawn_game_logic, a
\* thread inside its step can always go on, or the other thread can.
C32_NoDeadlock ==
    /\ tpc = "scan" => ENABLED GameTickStep \/ ENABLED RespawnNext
    /\ gpc = "respawn" => ENABLED RespawnNext \/ ENABLED GameTickStep

\* The live spacecraft that name a player as their owner.
SpacecraftOwnedBy(store, player_id) ==
    {i \in Live(store) :
        /\ store[i + 1][1].variant = "Spacecraft"
        /\ store[i + 1][1].owner = Some(player_id)}

\* C36. Each player owns at most one live spacecraft at any time, and an
\* EntityDestroyed event resets a player's spacecraft_id to None only when the
\* spacecraft it names has been destroyed, under every interleaving of ticks,
\* event dispatch and players_respawn_game_logic with slot reuse.
C36_OneSpacecraft ==
    /\ [](\A player_id \in DOMAIN players :
            Cardinality(SpacecraftOwnedBy(entities, player_id)) <= 1)
    /\ [][\A player_id \in DOMAIN players :
            (IsSome(players[player_id].spacecraft_id)
                    /\ players'[player_id].spacecraft_id = None)
                => Unwrap(players[player_id].spacecraft_id)
                        \notin SpacecraftOwnedBy(entities, player_id)]_vars

\* ------------------- physics.rs with several notifications in the channel

\* The variants this part creates: one with colliders, one without.
PhysicsVariants == {"Asteroid", "Camera"}

\* The channel takes one message more than MaxEvents.
ChannelRoom(n) == Len(events) + n <= MaxEvents + 1

\* ECS::create_entity: the lowest empty slot is reused, EntityCreated is sent.
SpawnQueued(variant, position) ==
    /\ WriteLockFree
    /\ ChannelRoom(1)
    /\ LET slot == FirstEmptySlot(entities)
       IN  /\ slot[1] < MaxLen
           /\ entities' = Insert(entities, slot[1], slot[2], NewEntity(variant, position))
           /\ events' = Append(events, EntityCreated(slot[1]))
    /\ UNCHANGED <<auxVars, systems, lockVars, sysMutex, clientVars, tickVars, physVars>>

\* ECS::destroy_entity, or a Destroy applied by a tick, for a slot of the store.
DespawnQueued(entity_id) ==
    /\ WriteLockFree
    /\ entity_id \in Ids(entities)
    /\ ChannelRoom(1)
    /\ LET r == ApplyAction(entities, Destroy(entity_id))
       IN  /\ entities' = r.store
           /\ events' = events \o r.sent
    /\ UNCHANGED <<auxVars, systems, lockVars, sysMutex, clientVars, tickVars, physVars>>

\* What the last notification of every collision is after one more message.
Note(started, message) ==
    IF message[1] = "CollisionStarted" THEN started \cup {message[2]}
    ELSE IF message[1] = "CollisionFinished" THEN started \ {message[2]}
    ELSE started

RECURSIVE NoteAll(_, _)
NoteAll(started, messages) ==
    IF messages = <<>> THEN started
    ELSE NoteAll(Note(started, Head(messages)), Tail(messages))

\* Physics::resolve with earlier messages still in the channel.
PhysicsResolveQueued ==
    /\ ppc = "updated"
    /\ ChannelRoom(Len(Publish(CurrentCollisions(colliders), collisions)))
    /\ events' = events \o Publish(CurrentCollisions(colliders), collisions)
    /\ collisions' = CurrentCollisions(colliders)
    /\ notified' = NoteAll(notified, Publish(CurrentCollisions(colliders), collisions))
    /\ ppc' = "idle"
    /\ UNCHANGED <<benchVars, absent, workerVars, dispatchVars, loopVars, inputVars,
                   playersVars, replaced, orderVars, entities, systems, lockVars, sysMutex,
                   clientVars,
                   tickVars, collected, colliders>>

NextPhysics ==
    \/ \E variant \in PhysicsVariants, position \in Positions : SpawnQueued(variant, position)
    \/ \E entity_id \in 0 .. MaxLen - 1 : DespawnQueued(entity_id)
    \/ \E entity_id \in 0 .. MaxLen - 1, func \in SystemClosures :
          SystemModify(entity_id, func)
    \/ DispatchToPhysics
    \/ PhysicsUpdate
    \/ PhysicsResolveQueued

SpecPhysics == Init /\ [][NextPhysics]_vars

\* A notification about the id is still in the channel.
Pending(entity_id) ==
    \E k \in DOMAIN events : events[k] \in {EntityCreated(entity_id), EntityDestroyed(entity_id)}

\* What a step has appended to the channel.
Appended == SubSeq(events', Len(events) + 1, Len(events'))

\* C33. Stale collision records are pruned: after an entity of a baseline pair
\* is destroyed and its EntityDestroyed has been dispatched (the id not
\* recreated), the next resolve sends CollisionFinished for every baseline pair
\* with that id and leaves no pair with that id in the baseline.
C33_StalePruned ==
    [][PhysicsResolveQueued =>
          \A entity_id \in 0 .. MaxLen :
              (~Occupied(entities, entity_id) /\ ~Pending(entity_id)) =>
                  /\ \A c \in collisions :
                        entity_id \in c => Count(CollisionFinished(c), Appended) = 1
                  /\ \A c \in collisions' : entity_id \notin c]_vars

\* The resolve after the destroy of entity 0 was dispatched has closed the
\* collision of 0 and 1.
C33_PrunedAfterDestroy ==
    /\ ppc = "idle"
    /\ ~Occupied(entities, 0)
    /\ Occupied(entities, 1)
    /\ CollisionFinished({0, 1}) \in {events[k] : k \in DOMAIN events}
    /\ collisions = {}
    /\ DOMAIN colliders = {1}

\* C34. The unreachable branch of update is never reached: every id of the
\* collider map resolves, when update visits it, to an empty slot or to a
\* Spacecraft, Asteroid or Bullet, never to an entity of another variant that
\* reused the slot.
C34_UnreachableNotReached == ppc # "panicked"

\* No EntityCreated or EntityDestroyed is in the channel.
Quiescent ==
    \A k \in DOMAIN events : events[k][1] \notin {"EntityCreated", "EntityDestroyed"}

\* C37. Once all pending EntityCreated and EntityDestroyed events have been
\* dispatched, the ids of the collider map are the ids of the live Spacecraft,
\* Asteroid and Bullet entities, whatever the creates and destroys were.
C37_QuiescentColliders ==
    Quiescent => DOMAIN colliders = Collidable(entities)

\* Slot 0, whose asteroid had collided with entity 1, holds a camera now, and
\* every notification has been dispatched.
C37_ReusedByCamera ==
    /\ events = <<>>
    /\ Occupied(entities, 0)
    /\ entities[1][1].variant = "Camera"
    /\ collisions = {{0, 1}}
    /\ DOMAIN colliders = {1}

\* C38. For every collision the notifications alternate, starting with
\* CollisionStarted: CollisionFinished(p) is sent only for p in the baseline,
\* that is after a CollisionStarted(p) with no CollisionFinished(p) since, and
\* CollisionStarted(p) is never sent twice without a CollisionFinished(p)
\* in between.
C38_Alternation ==
    [][PhysicsResolveQueued =>
          \A k \in DOMAIN Appended :
              /\ Appended[k][1] = "CollisionStarted" => Appended[k][2] \notin notified
              /\ Appended[k][1] = "CollisionFinished" =>
                    Appended[k][2] \in notified /\ Appended[k][2] \in collisions
              /\ \A j \in DOMAIN Appended : j # k => Appended[j][2] # Appended[k][2]]_vars

\* A collision has finished and started again.
C38_StartedAgain ==
    events = <<CollisionFinished({0, 1}), CollisionStarted({0, 1})>>

\* ------------- game/physics.rs: creates between the collect and the publish

\* The variants this part creates; both have a collider component.
PublishVariants == {"Asteroid", "Bullet"}

\* EntitiesWriteLock::create, with the history of the slots it has filled.
SpawnTracked(variant, position) ==
    /\ WriteLockFree
    /\ events = <<>>
    /\ LET slot == FirstEmptySlot(entities)
       IN  /\ slot[1] < MaxLen
           /\ entities' = Insert(entities, slot[1], slot[2], NewEntity(variant, position))
           /\ events' = Append(events, EntityCreated(slot[1]))
           /\ replaced' = replaced \cup {slot[1]}
    /\ UNCHANGED <<benchVars, absent, workerVars, dispatchVars, loopVars, inputVars,
                   playersVars, notified, orderVars, systems, lockVars, sysMutex, clientVars,
                   tickVars, physVars>>

NextPublish ==
    \/ \E variant \in PublishVariants, position \in Positions : SpawnTracked(variant, position)
    \/ \E entity_id \in 0 .. MaxLen - 1 : Despawn(entity_id)
    \/ PhysicsCollect
    \/ PhysicsStore
    \/ Dispatch

SpecPublish == Init /\ [][NextPublish]_vars

\* C35. Physics never publishes a collision onto an unrelated entity: whenever
\* store_collisions writes results onto an id, the entity in that slot is the
\* one that was there when collect_collisions computed them, even if entities
\* are destroyed and created between the two phases.
C35_PublishOntoSame ==
    [][PhysicsStore =>
          \A entity_id \in DOMAIN collected :
              (Occupied(entities, entity_id) /\ HasCollider(entities[entity_id + 1][1]))
                  => entity_id \notin replaced]_vars

\* ------------- ecs.rs: the store changes first, the notification follows

\* A mutation that took effect, or a notification that was enqueued, with the
\* thread that performed it.
By(thread, event) == [thread |-> thread, event |-> event]

\* create_entity, second half, up to the assignment of the slot.
CreateStore(t) ==
    /\ pc[t] = "creating"
    /\ Len(mutated) < MaxCalls
    /\ LET l == local[t]
       IN  /\ entities' = Insert(entities, l.entity_id, l.should_insert, l.entity)
           /\ mutated' = Append(mutated, By(t, EntityCreated(l.entity_id)))
    /\ pc' = [pc EXCEPT ![t] = "created"]
    /\ UNCHANGED <<benchVars, absent, workerVars, dispatchVars, loopVars, inputVars,
                   playersVars, notified, replaced, notes, physVars, events, systems,
                   lockVars, sysMutex, local, ret, tickVars>>

\* create_entity, the rest: self.event_sender.send(EntityCreated(entity_id)); entity_id
CreateSend(t) ==
    /\ pc[t] = "created"
    /\ Len(events) < MaxEvents
    /\ LET l == local[t]
       IN  /\ events' = Append(events, EntityCreated(l.entity_id))
           /\ notes' = Append(notes, By(t, EntityCreated(l.entity_id)))
           /\ ret' = [ret EXCEPT ![t] = <<"id", l.entity_id>>]
    /\ pc' = [pc EXCEPT ![t] = "writing"]
    /\ local' = [local EXCEPT ![t] = NoLocal]
    /\ UNCHANGED <<benchVars, absent, workerVars, dispatchVars, loopVars, inputVars,
                   playersVars, notified, replaced, mutated, physVars, entities, systems,
                   lockVars, sysMutex, tickVars>>

\* destroy_entity up to `*slot = None`; an id out of range ends the call.
DestroyClear(t, entity_id) ==
    /\ pc[t] = "writing"
    /\ Len(mutated) < MaxCalls
    /\ IF IsSome(GetSlot(entities, entity_id))
       THEN /\ entities' = SetSlot(entities, entity_id, None)
            /\ mutated' = Append(mutated, By(t, EntityDestroyed(entity_id)))
            /\ local' = [local EXCEPT ![t] = [NoLocal EXCEPT !.entity_id = entity_id]]
            /\ pc' = [pc EXCEPT ![t] = "cleared"]
            /\ ret' = ret
       ELSE /\ ret' = [ret EXCEPT ![t] = <<"unit", entity_id>>]
            /\ UNCHANGED <<entities, mutated, local, pc>>
    /\ UNCHANGED <<benchVars, absent, workerVars, dispatchVars, loopVars, inputVars,
                   playersVars, notified, replaced, notes, physVars, events, systems,
                   lockVars, sysMutex, tickVars>>

\* destroy_entity, the rest: self.event_sender.send(EntityDestroyed(entity_id))
DestroySend(t) ==
    /\ pc[t] = "cleared"
    /\ Len(events) < MaxEvents
    /\ LET l == local[t]
       IN  /\ events' = Append(events, EntityDestroyed(l.entity_id))
           /\ notes' = Append(notes, By(t, EntityDestroyed(l.entity_id)))
           /\ ret' = [ret EXCEPT ![t] = <<"unit", l.entity_id>>]
    /\ pc' = [pc EXCEPT ![t] = "writing"]
    /\ local' = [local EXCEPT ![t] = NoLocal]
    /\ UNCHANGED <<benchVars, absent, workerVars, dispatchVars, loopVars, inputVars,
                   playersVars, notified, replaced, mutated, physVars, entities, systems,
                   lockVars, sysMutex, tickVars>>

\* One turn of the loop over the deferred actions, up to the change of the
\* store; a turn that sends nothing is over with it.
TickApplyStore ==
    /\ tpc = "apply"
    /\ actions # <<>>
    /\ Len(mutated) < MaxCalls
    /\ LET k == NextAction(actions)
           r == ApplyAction(entities, actions[k])
       IN  /\ entities' = r.store
           /\ IF r.sent # <<>>
              THEN /\ mutated' = Append(mutated, By(Worker, r.sent[1]))
                   /\ tpc' = "notify"
                   /\ UNCHANGED <<actions, done>>
              ELSE /\ done' = Append(done, [action |-> actions[k], called |-> r.called,
                                            sent |-> r.sent,
                                            slot |-> GetEntity(r.store, actions[k].entity_id)])
                   /\ actions' = [i \in 1 .. Len(actions) - 1 |->
                                     IF i < k THEN actions[i] ELSE actions[i + 1]]
                   /\ UNCHANGED <<mutated, tpc>>
    /\ UNCHANGED <<benchVars, absent, workerVars, dispatchVars, loopVars, inputVars,
                   playersVars, notified, replaced, notes, physVars, events, systems,
                   lockVars, sysMutex, clientVars, scan, enqueued, snapshot, invoked>>

\* The turn of a Destroy, the rest: ecs.event_sender.send(EntityDestroyed(entity_id))
TickApplySend ==
    /\ tpc = "notify"
    /\ Len(events) < MaxEvents
    /\ LET k == NextAction(actions)
           note == EntityDestroyed(actions[k].entity_id)
       IN  /\ events' = Append(events, note)
           /\ notes' = Append(notes, By(Worker, note))
           /\ done' = Append(done, [action |-> actions[k], called |-> FALSE,
                                    sent |-> <<note>>,
                                    slot |-> GetEntity(entities, actions[k].entity_id)])
           /\ actions' = [i \in 1 .. Len(actions) - 1 |->
                             IF i < k THEN actions[i] ELSE actions[i + 1]]
    /\ tpc' = "apply"
    /\ UNCHANGED <<benchVars, absent, workerVars, dispatchVars, loopVars, inputVars,
                   playersVars, notified, replaced, mutated, physVars, entities, systems,
                   lockVars, sysMutex, clientVars, scan, enqueued, snapshot, invoked>>

\* What the systems of this part ask for: nothing, or the destruction of the
\* entity they were invoked for.
DestroyRequests(entity_id) == {<<>>, <<Destroy(entity_id)>>}

NextOrder ==
    \/ \E t \in Clients : LockWrite(t)
    \/ \E t \in Clients : CreateFind(t, 0)
    \/ \E t \in Clients : CreateStore(t)
    \/ \E t \in Clients : CreateSend(t)
    \/ \E t \in Clients, entity_id \in 0 .. MaxLen : DestroyClear(t, entity_id)
    \/ \E t \in Clients : DestroySend(t)
    \/ \E t \in Clients : UnlockWrite(t)
    \/ AddSystem(1, "s1")
    \/ Dispatch
    \/ TickLockEntities
    \/ TickLockSystems
    \/ TickNextEntity
    \/ \E request \in DestroyRequests(scan.entity_id) : TickInvoke(request)
    \/ TickApplyStore
    \/ TickApplySend
    \/ TickUnlock

SpecOrder == Init /\ [][NextOrder]_vars

\* The first n elements of a sequence.
Prefix(seq, n) == [i \in 1 .. n |-> seq[i]]

\* C39. Notification order equals mutation order: the notifications of the
\* mutations of the store (create, direct destroy, a deferred Destroy applied
\* by a tick), whatever threads perform them, are enqueued in the order in
\* which the mutations took effect.
C39_NotificationOrder ==
    /\ Len(notes) <= Len(mutated)
    /\ notes = Prefix(mutated, Len(notes))

\* Three threads have changed the store in turn and every notification is enqueued.
C39_ThreeThreads ==
    /\ Len(notes) >= 3
    /\ notes = mutated
    /\ {notes[i].thread : i \in 1 .. Len(notes)} = Clients \cup {Worker}
    /\ \E i \in 1 .. Len(notes) : notes[i].event[1] = "EntityCreated"
    /\ \E i \in 1 .. Len(notes) : notes[i] = By(Worker, EntityDestroyed(0))

\* ------------- game/physics.rs: collision_test, both ways round

\* C40. collision_test is symmetric in its arguments: for every pair of
\* colliders a and b (Point or Triangle), a.collision_test(b) is what
\* b.collision_test(a) returns.
C40_Symmetric ==
    verdict # None =>
        Unwrap(verdict) = ColliderCollisionTest(Unwrap(testRight), Unwrap(testLeft))

\* A point was the receiver of a test against a triangle whose bounding circle
\* it overlaps while it lies outside the triangle: no collision, either way round.
C40_PointBesideTriangle ==
    /\ Tested("Point", "Triangle")
    /\ PointPointCollisionTest(Unwrap(testLeft), Unwrap(testRight))
    /\ ~Unwrap(verdict)
    /\ ~ColliderCollisionTest(Unwrap(testRight), Unwrap(testLeft))

====
